---- MODULE Spec2Model ----
(***************************************************************************)
(* harmony_playground: the audio core (src/audio/engine.rs,                *)
(* src/audio/synthesizer.rs), the locking protocol main.rs puts around     *)
(* it (Arc<Mutex<AudioEngine>>, Arc<RwLock<f32>> cells), and the GUI's     *)
(* State with the messages State::update handles (src/main.rs,             *)
(* src/gui/relative_frequency.rs, src/gui/global_frequency.rs).            *)
(*                                                                         *)
(* Numbers.  The code computes in f32; the model computes the same         *)
(* expressions exactly, on scaled integers, and ignores f32 rounding:      *)
(*   - a phase (`time`, in cycles) is an integer count of                  *)
(*     1/(WAVETABLE_SIZE*Sub) cycle, so that time*WAVETABLE_SIZE (the      *)
(*     table index) is an integer count of 1/Sub table slot;               *)
(*   - a frequency is the integer phase advance it gives per sample        *)
(*     (frequency * sample_rate_recip, in phase units);                    *)
(*   - a table sample is an integer count of 1/TableOne;                   *)
(*   - a volume multiplier is an integer count of 1/VolOne;                *)
(*   - a base-2 gain is an integer or NegInf, its linear multiple an       *)
(*     integer count of 1/GainOne.                                         *)
(* The sine generator is the one place where the value itself is           *)
(* approximated (Bhaskara's rational formula, exact at the quarter         *)
(* points).                                                                *)
(***************************************************************************)
EXTENDS Integers, Sequences, FiniteSets, TLC

\* ------------------------------------------------------------------ bounds
MaxIds == 2          \* add_oscillator calls explored
MaxCells == 1        \* cells of each kind constructed
MaxSamples == 2      \* calls of next explored
Sub == 2             \* phase resolution: Sub phase units per table slot
FutureLen == 2       \* samples compared when two engines are compared

\* --------------------------------------------------------------- constants
WAVETABLE_SIZE == 1024
TableOne == 512
VolOne == 2
GainBits == 4
GainOne == 2 ^ GainBits
DefaultVolume == 0 - 4
NegInf == 0 - 1000

PhaseSlots == WAVETABLE_SIZE * Sub           \* phase units in one cycle
PhaseWrap == WAVETABLE_SIZE * PhaseSlots     \* phase units in WAVETABLE_SIZE cycles

WaveForms == {"Sine", "Triangle", "Square", "Saw"}
WaveFormInputs == {"Square", "Saw"}
FreqInputs == {1, PhaseWrap - 1}
VolMultInputs == {0 - 1, 1, VolOne + 1}

\* the twin oscillators: samples taken, and the values their two cells hold:
\* a frequency just over half a cycle per sample and one just under half of
\* WAVETABLE_SIZE cycles per sample
MaxTwinSteps == 6
TwinFreqInputs == {PhaseSlots \div 2 + 1, PhaseWrap \div 2 - 3}
TwinVolMultInputs == {1, VolOne}
VolumeInputs == {0 - 1, 1}

\* the arguments the pure functions are applied to
GainInputs == {NegInf} \cup ((0 - GainBits)..2)
IndexInputs == 0..(2 * WAVETABLE_SIZE - 1)
InterpolationInputs == 0..(2 * PhaseSlots - 1)

\* the inputs of the two-thread specifications, where the locks and not the
\* values are at stake
ConcWaveFormInputs == {"Saw"}
ConcFreqInputs == {1, 3}
ConcVolMultInputs == {VolOne + 1}
ConcVolumeInputs == {0 - 1}

\* the GUI's State: global frequencies added, keys of relative_frequencies
\* used, oscillator ids handed out
MaxGlobal == 1
MaxKeys == 2
MaxGuiIds == 3

\* the paths the file dialogs give, and the values the GUI's widgets send.
\* A project is compared with the copy a save task holds and with the copy on
\* disk, so the values that tell two projects apart are kept few: the id an
\* entry references, the master volume and the waveform vary; the other
\* widgets send the value their field already has.
Paths == {"a.harm"}
GlobalFrequencyInputs == {42}
NumeratorInputs == {1}
DenominatorInputs == {1}
RelativeVolumeInputs == {0 - 2}
GuiWaveFormInputs == {"Square"}
GuiVolumeInputs == {0 - 10}

\* the values SpecGuiEdit's messages carry
EditFrequencyInputs == {42, 84}
EditNumeratorInputs == {1, 3}
EditDenominatorInputs == {1, 2}

\* ------------------------------------------------------------------- state
VARIABLES
    wavetable,        \* AudioEngine.wavetable: the template, named by its generator
    oscillators,      \* AudioEngine.oscillators: id -> WaveTableOscillator
    volume,           \* AudioEngine.volume (base-2 gain)
    volume_multiple,  \* AudioEngine.volume_multiple
    latestid,         \* AudioEngine.latestid
    is_playing,       \* AudioEngine.is_playing
    freqCells,        \* storage of the SharedFrequency cells, by cell
    volCells,         \* storage of the SharedVolumeMultiplier cells, by cell
    returned,         \* history: the ids add_oscillator returned, in order
    out,              \* the value the last call returned, when it was a call of next
    samples,          \* history: the number of calls of next
    lastSet,          \* history: the kind of the last set_waveform call (None before the
                      \* first), and whether reset was called since
    lastVolume,       \* history: the Volume of the last set_volume call since new or the
                      \* last reset (None when there was none)
    frozen,           \* history: the engine as it was at the last stop() of a playing
                      \* engine, while only next() and then play() have followed
    written,          \* history: per cell, the argument of the last set() on its
                      \* retained handle (None before the first)
    last,             \* history: the last call made (its name; for remove_oscillator,
                      \* whether the id was registered)
    transport,        \* history: the last transport call, "play" or "stop" ("" before
                      \* the first)
    solo,             \* history: id -> the voice as it stands in an engine that holds
                      \* only this voice and was given the same calls
    fn_call,          \* the pure function applied last, with its input and result
    mutex,            \* Mutex<AudioEngine>: "free", or the thread holding it
    readLocked,       \* cells whose RwLock is held for reading: <<"f", c>>, <<"v", c>>
    writeLocked,      \* cells whose RwLock is held for writing
    a_pc,             \* audio thread: position in AudioSource::next
    a_todo,           \* audio thread: ids the loop of AudioEngine::next has yet to visit
    a_sum,            \* audio thread: `sum` of AudioEngine::next
    a_sample,         \* audio thread: `sample` of the current voice's next
    a_used,           \* history: id -> table each voice of this sample was read from
    a_snap,           \* history: id -> table of each voice when this sample began
    g_pc,             \* control thread: position
    g_calls,          \* control thread: engine calls left in its critical section
    g_cell,           \* control thread: the cell write in progress
    global_frequencies,   \* State.global_frequencies: id -> GlobalFrequency
    relative_frequencies, \* State.relative_frequencies: key -> (RelativeFrequency,
                          \* Option<oscillator id>, SharedFrequency,
                          \* SharedVolumeMultiplier)
    state_volume,     \* State.volume
    state_waveform,   \* State.waveform
    is_loading,       \* State.is_loading
    file,             \* State.file: None or Some([path, saved])
    task,             \* the file task State::update started, until its completion
                      \* message is handled
    disk,             \* path -> None or Some(the StateSave written there)
    twins             \* one oscillator stepped as the code steps it, beside one that
                      \* wraps its phase at one cycle, with the two samples last returned

engineVars == <<wavetable, oscillators, volume, volume_multiple, latestid, is_playing>>
cellVars == <<freqCells, volCells>>
retVars == <<returned, out, samples>>
histVars == <<retVars, lastSet, lastVolume, frozen, written, last, transport, solo>>
lockVars == <<mutex, readLocked, writeLocked>>
audioVars == <<a_pc, a_todo, a_sum, a_sample, a_used, a_snap>>
guiVars == <<g_pc, g_calls, g_cell>>
threadVars == <<lockVars, audioVars, guiVars>>
stateVars == <<global_frequencies, relative_frequencies, state_volume, state_waveform,
               is_loading, file, task, disk>>
vars == <<engineVars, cellVars, histVars, threadVars, fn_call, stateVars, twins>>

\* ------------------------------------------------------------ synthesizer.rs
Abs(x) == IF x < 0 THEN 0 - x ELSE x

Floor(a, b) == a \div b

\* sine(): (time * TAU).sin(), time = i / WAVETABLE_SIZE
SineFn(i) ==
    LET half == WAVETABLE_SIZE \div 2
        h == i % half
        p == h * (half - h)
        q == (half * half) \div 4
        v == (TableOne * 4 * p) \div (5 * q - p)
    IN  IF i < half THEN v ELSE 0 - v

\* triangle(): 4.0 * (time + 0.25 - (time + 0.75).floor()).abs() - 1.0
TriangleFn(i) ==
    LET q == WAVETABLE_SIZE \div 4
        fl == Floor(i + 3 * q, WAVETABLE_SIZE)
    IN  ((4 * Abs(i + q - WAVETABLE_SIZE * fl) - WAVETABLE_SIZE) * TableOne) \div WAVETABLE_SIZE

\* square(): if time <= 0.5 { 1.0 } else { -1.0 }
SquareFn(i) == IF 2 * i <= WAVETABLE_SIZE THEN TableOne ELSE 0 - TableOne

\* saw(): (2.0 * time + 3.0) % 2.0 - 1.0
SawFn(i) ==
    ((((2 * i + 3 * WAVETABLE_SIZE) % (2 * WAVETABLE_SIZE)) - WAVETABLE_SIZE) * TableOne) \div WAVETABLE_SIZE

\* from_fn: table[i] = f(i / WAVETABLE_SIZE), for the generator named k
Table(k, i) ==
    CASE k = "Sine" -> SineFn(i)
      [] k = "Triangle" -> TriangleFn(i)
      [] k = "Square" -> SquareFn(i)
      [] k = "Saw" -> SawFn(i)

\* lerp, with t = r / Sub; the result counts 1/(Sub*TableOne)
lerp(sample0, sample1, r) == (Sub - r) * sample0 + r * sample1

\* the outcome of a call that panics (a slice index out of bounds): a value
\* no sample and no interpolated value takes
Panic == 0 - 4 * Sub * TableOne

\* WaveTable::get_index: self.0[index]
get_index(k, i) == IF i < WAVETABLE_SIZE THEN Table(k, i) ELSE Panic

\* get_interpolated_value taking the last index as its own neighbour
get_interpolated_value_no_wrap(k, x) ==
    LET index == x % PhaseSlots
        floor == index \div Sub
        up == IF floor + 1 < WAVETABLE_SIZE THEN floor + 1 ELSE floor
    IN  lerp(Table(k, floor), Table(k, up), index - floor * Sub)

\* get_interpolated_value without the reduction of its index
get_interpolated_value_no_modulo(k, x) ==
    LET floor == x \div Sub
        sample0 == get_index(k, floor)
        sample1 == get_index(k, (floor + 1) % WAVETABLE_SIZE)
    IN  IF sample0 = Panic \/ sample1 = Panic THEN Panic
        ELSE lerp(sample0, sample1, x - floor * Sub)

\* get_interpolated_value(index), index = x / Sub table slots; the two reads
\* of self.0 are slice reads, as in get_index
get_interpolated_value(k, x) ==
    LET index == x % PhaseSlots
        floor == index \div Sub
        sample0 == get_index(k, floor)
        sample1 == get_index(k, (floor + 1) % WAVETABLE_SIZE)
    IN  IF sample0 = Panic \/ sample1 = Panic THEN Panic
        ELSE lerp(sample0, sample1, index - floor * Sub)

\* WaveTableOscillator::new
NewOscillator(fc, vc, k) ==
    [frequency |-> fc, volume_multiplier |-> vc, wavetable |-> k, time |-> 0]

\* set_wavetable restarting the voice's cycle
set_wavetable_restarting(osc, k) == [osc EXCEPT !.wavetable = k, !.time = 0]

\* WaveTableOscillator::set_wavetable
set_wavetable(osc, k) == [osc EXCEPT !.wavetable = k]

\* Option<f32>: None, or Some(x) as <<x>>
None == << >>
Some(x) == <<x>>

\* Option::unwrap_or
unwrap_or(o, d) == IF o = None THEN d ELSE o[1]

\* a voice's next without the wrap of the phase
OscNextNoWrap(osc, f, v) ==
    [sample |-> get_interpolated_value(osc.wavetable, osc.time) * v,
     ret |-> Some(get_interpolated_value(osc.wavetable, osc.time) * v),
     osc |-> [osc EXCEPT !.time = osc.time + f]]

\* a voice's next advancing the phase before the table is read
OscNextAdvanceFirst(osc, f, v) ==
    [sample |-> get_interpolated_value(osc.wavetable, (osc.time + f) % PhaseWrap) * v,
     ret |-> Some(get_interpolated_value(osc.wavetable, (osc.time + f) % PhaseWrap) * v),
     osc |-> [osc EXCEPT !.time = (osc.time + f) % PhaseWrap]]

\* a voice's next ending the iteration when the phase wraps
OscNextOneCycle(osc, f, v) ==
    [sample |-> get_interpolated_value(osc.wavetable, osc.time) * v,
     ret |-> IF osc.time + f >= PhaseWrap THEN None
             ELSE Some(get_interpolated_value(osc.wavetable, osc.time) * v),
     osc |-> [osc EXCEPT !.time = (osc.time + f) % PhaseWrap]]

\* <WaveTableOscillator as Iterator>::next, given the values read from the
\* two cells: the sample (counting 1/(Sub*TableOne*VolOne)), the value
\* returned, Some(sample), and the oscillator afterwards
OscNext(osc, f, v) ==
    [sample |-> get_interpolated_value(osc.wavetable, osc.time) * v,
     ret |-> Some(get_interpolated_value(osc.wavetable, osc.time) * v),
     osc |-> [osc EXCEPT !.time = (osc.time + f) % PhaseWrap]]

\* next with `self.time %= 1.0` in place of `self.time %= WAVETABLE_SIZE as
\* f32`: the oscillator whose phase wraps at one cycle, which the code's
\* oscillator is compared with
OscNextUnitWrap(osc, f, v) ==
    [sample |-> get_interpolated_value(osc.wavetable, osc.time) * v,
     ret |-> Some(get_interpolated_value(osc.wavetable, osc.time) * v),
     osc |-> [osc EXCEPT !.time = (osc.time + f) % PhaseSlots]]

\* ---------------------------------------------------------------- engine.rs
\* Volume::new keeping its argument as it is
VolumeNewUnclamped(g) == g

\* Volume::new: clamp(NEG_INFINITY, 0.0)
VolumeNew(g) == IF g = NegInf THEN NegInf ELSE IF g > 0 THEN 0 ELSE g

\* Volume::multiple falling linearly with the gain
VolumeMultipleLinear(g) == IF g = NegInf THEN 0 ELSE GainOne + g

\* Volume::multiple: exp2, counting 1/GainOne
VolumeMultiple(g) == IF g = NegInf THEN 0 ELSE 2 ^ (GainBits + g)

\* Volume::get
VolumeGet(vol) == vol

\* SharedVolumeMultiplier::set's clamp(0.0, 1.0)
ClampUnit(v) == IF v < 0 THEN 0 ELSE IF v > VolOne THEN VolOne ELSE v

NoSnap == [set |-> FALSE]
NoTwins == [made |-> FALSE]

\* a call by its name; found is what BTreeMap::remove found, for remove_oscillator
Called(op, found) == [op |-> op, found |-> found]
NoCall == Called("", FALSE)

\* an application of a pure function: its name, the generator of the table it
\* is applied to (when there is one), its numeric argument and its result
Applied(fn, k, a, r) == [fn |-> fn, k |-> k, a |-> a, r |-> r]
NoFn == Applied("", "", 0, 0)

\* no file task
NoTask == [fn |-> "", state_save |-> None]

Init ==
    /\ wavetable = "Sine"
    /\ oscillators = << >>
    /\ volume = VolumeNew(DefaultVolume)
    /\ volume_multiple = VolumeMultiple(VolumeNew(DefaultVolume))
    /\ latestid = 0
    /\ is_playing = FALSE
    /\ freqCells = << >>
    /\ volCells = << >>
    /\ returned = << >>
    /\ out = None
    /\ samples = 0
    /\ frozen = NoSnap
    /\ lastSet = [kind |-> None, reset |-> FALSE]
    /\ lastVolume = None
    /\ written = [f |-> << >>, v |-> << >>]
    /\ last = NoCall
    /\ transport = ""
    /\ solo = << >>
    /\ fn_call = NoFn
    /\ mutex = "free"
    /\ readLocked = {}
    /\ writeLocked = {}
    /\ a_pc = "idle"
    /\ a_todo = << >>
    /\ a_sum = 0
    /\ a_sample = 0
    /\ a_used = << >>
    /\ a_snap = << >>
    /\ g_pc = "idle"
    /\ g_calls = << >>
    /\ g_cell = << >>
    /\ global_frequencies = << >>
    /\ relative_frequencies = << >>
    /\ state_volume = VolumeNew(DefaultVolume)
    /\ state_waveform = "Sine"
    /\ is_loading = FALSE
    /\ file = None
    /\ task = NoTask
    /\ disk = [path \in Paths |-> None]
    /\ twins = NoTwins

\* SharedFrequency::new
SharedFrequencyNew(f) ==
    /\ Len(freqCells) < MaxCells
    /\ freqCells' = Append(freqCells, f)
    /\ UNCHANGED <<engineVars, volCells, returned, samples>>
    /\ out' = None

\* SharedFrequency::get
SharedFrequencyGet(c) == freqCells[c]

\* SharedVolumeMultiplier::get
SharedVolumeMultiplierGet(c) == volCells[c]

\* SharedVolumeMultiplier::new (no clamp)
SharedVolumeMultiplierNew(v) ==
    /\ Len(volCells) < MaxCells
    /\ volCells' = Append(volCells, v)
    /\ UNCHANGED <<engineVars, freqCells, returned, samples>>
    /\ out' = None

\* set storing into a copy of the cell, not the storage the voice reads
SharedFrequencySetDetached(c, f) ==
    /\ c \in DOMAIN freqCells
    /\ UNCHANGED <<engineVars, freqCells, volCells, returned, samples>>
    /\ out' = None

\* SharedFrequency::set
SharedFrequencySet(c, f) ==
    /\ c \in DOMAIN freqCells
    /\ freqCells' = [freqCells EXCEPT ![c] = f]
    /\ UNCHANGED <<engineVars, volCells, returned, samples>>
    /\ out' = None

\* set storing its argument as it is
SharedVolumeMultiplierSetUnclamped(c, v) ==
    /\ c \in DOMAIN volCells
    /\ volCells' = [volCells EXCEPT ![c] = v]
    /\ UNCHANGED <<engineVars, freqCells, returned, samples>>
    /\ out' = None

\* SharedVolumeMultiplier::set
SharedVolumeMultiplierSet(c, v) ==
    /\ c \in DOMAIN volCells
    /\ volCells' = [volCells EXCEPT ![c] = ClampUnit(v)]
    /\ UNCHANGED <<engineVars, freqCells, returned, samples>>
    /\ out' = None

\* add_oscillator taking the id from the registry's size instead of the counter
add_oscillator_by_len(fc, vc) ==
    LET id == Cardinality(DOMAIN oscillators)
    IN  /\ latestid < MaxIds
        /\ fc \in DOMAIN freqCells
        /\ vc \in DOMAIN volCells
        /\ latestid' = latestid + 1
        /\ oscillators' = [i \in DOMAIN oscillators \cup {id} |->
                              IF i = id THEN NewOscillator(fc, vc, wavetable)
                              ELSE oscillators[i]]
        /\ returned' = Append(returned, id)
        /\ UNCHANGED <<wavetable, volume, volume_multiple, is_playing, cellVars, samples>>
        /\ out' = None

\* AudioEngine::add_oscillator
add_oscillator(fc, vc) ==
    /\ latestid < MaxIds
    /\ fc \in DOMAIN freqCells
    /\ vc \in DOMAIN volCells
    /\ latestid' = latestid + 1
    /\ oscillators' = [i \in DOMAIN oscillators \cup {latestid} |->
                          IF i = latestid THEN NewOscillator(fc, vc, wavetable)
                          ELSE oscillators[i]]
    /\ returned' = Append(returned, latestid)
    /\ UNCHANGED <<wavetable, volume, volume_multiple, is_playing, cellVars, samples>>
    /\ out' = None

\* remove_oscillator rewinding the voices it leaves
remove_oscillator_rewinding(id) ==
    /\ oscillators' = [i \in DOMAIN oscillators \ {id} |-> [oscillators[i] EXCEPT !.time = 0]]
    /\ UNCHANGED <<wavetable, volume, volume_multiple, latestid, is_playing, cellVars, returned, samples>>
    /\ out' = None

\* remove_oscillator emptying the registry when the id is not in it
remove_oscillator_or_clear(id) ==
    /\ oscillators' = IF id \in DOMAIN oscillators
                      THEN [i \in DOMAIN oscillators \ {id} |-> oscillators[i]]
                      ELSE << >>
    /\ UNCHANGED <<wavetable, volume, volume_multiple, latestid, is_playing, cellVars, returned, samples>>
    /\ out' = None

\* AudioEngine::remove_oscillator
remove_oscillator(id) ==
    /\ oscillators' = [i \in DOMAIN oscillators \ {id} |-> oscillators[i]]
    /\ UNCHANGED <<wavetable, volume, volume_multiple, latestid, is_playing, cellVars, returned, samples>>
    /\ out' = None

\* AudioEngine::clear_oscillators
clear_oscillators ==
    /\ oscillators' = << >>
    /\ UNCHANGED <<wavetable, volume, volume_multiple, latestid, is_playing, cellVars, returned, samples>>
    /\ out' = None

\* set_waveform replacing the template only
set_waveform_template_only(k) ==
    /\ wavetable' = k
    /\ UNCHANGED <<oscillators, volume, volume_multiple, latestid, is_playing, cellVars, returned, samples>>
    /\ out' = None

\* AudioEngine::set_waveform
set_waveform(k) ==
    /\ oscillators' = [i \in DOMAIN oscillators |-> set_wavetable(oscillators[i], k)]
    /\ wavetable' = k
    /\ UNCHANGED <<volume, volume_multiple, latestid, is_playing, cellVars, returned, samples>>
    /\ out' = None

\* AudioEngine::set_volume(Volume::new(g))
\* set_volume storing the new volume and leaving the multiplier as it was
set_volume_keeping_multiple(g) ==
    /\ volume' = VolumeNew(g)
    /\ UNCHANGED <<volume_multiple, wavetable, oscillators, latestid, is_playing, cellVars,
                   returned, samples>>
    /\ out' = None

\* AudioEngine::get_volume
get_volume == volume

\* AudioEngine::set_volume, called with Volume::new(g)
set_volume(g) ==
    /\ volume_multiple' = VolumeMultiple(VolumeNew(g))
    /\ volume' = VolumeNew(g)
    /\ UNCHANGED <<wavetable, oscillators, latestid, is_playing, cellVars, returned, samples>>
    /\ out' = None

\* reset stopping the transport as well
reset_stopping ==
    /\ volume' = VolumeNew(DefaultVolume)
    /\ volume_multiple' = VolumeMultiple(VolumeNew(DefaultVolume))
    /\ wavetable' = "Sine"
    /\ is_playing' = FALSE
    /\ UNCHANGED <<oscillators, latestid, cellVars, returned, samples>>
    /\ out' = None

\* AudioEngine::reset
reset ==
    /\ volume' = VolumeNew(DefaultVolume)
    /\ volume_multiple' = VolumeMultiple(VolumeNew(DefaultVolume))
    /\ wavetable' = "Sine"
    /\ UNCHANGED <<oscillators, latestid, is_playing, cellVars, returned, samples>>
    /\ out' = None

\* play restarting every voice at phase 0
play_restarting ==
    /\ is_playing' = TRUE
    /\ oscillators' = [i \in DOMAIN oscillators |-> [oscillators[i] EXCEPT !.time = 0]]
    /\ UNCHANGED <<wavetable, volume, volume_multiple, latestid, cellVars, returned, samples>>
    /\ out' = None

\* AudioEngine::play
play ==
    /\ is_playing' = TRUE
    /\ UNCHANGED <<wavetable, oscillators, volume, volume_multiple, latestid, cellVars, returned, samples>>
    /\ out' = None

\* AudioEngine::stop
stop ==
    /\ is_playing' = FALSE
    /\ UNCHANGED <<wavetable, oscillators, volume, volume_multiple, latestid, cellVars, returned, samples>>
    /\ out' = None

\* the keys of a BTreeMap in iteration order
RECURSIVE SortedIds(_)
SortedIds(S) ==
    IF S = {} THEN << >>
    ELSE LET m == CHOOSE x \in S : \A y \in S : x <= y
         IN  <<m>> \o SortedIds(S \ {m})

\* the loop of <AudioEngine as Iterator>::next: for osc in values_mut() { sum += osc.next() }
RECURSIVE MixLoop(_, _, _, _, _)
MixLoop(ids, oscs, sum, fcs, vcs) ==
    IF ids = << >> THEN [sum |-> sum, oscillators |-> oscs]
    ELSE LET id == Head(ids)
             r == OscNext(oscs[id], fcs[oscs[id].frequency], vcs[oscs[id].volume_multiplier])
         IN  MixLoop(Tail(ids), [oscs EXCEPT ![id] = r.osc], sum + unwrap_or(r.ret, 0), fcs, vcs)

\* next testing is_playing only after the loop has run
AudioEngineNextLateGate(playing, oscs, mult, fcs, vcs) ==
    LET m == MixLoop(SortedIds(DOMAIN oscs), oscs, 0, fcs, vcs)
    IN  [out |-> IF playing THEN Some(m.sum * mult) ELSE Some(0), oscillators |-> m.oscillators]

\* next dividing the mix by the number of voices
AudioEngineNextNormalised(playing, oscs, mult, fcs, vcs) ==
    IF ~playing THEN [out |-> Some(0), oscillators |-> oscs]
    ELSE LET m == MixLoop(SortedIds(DOMAIN oscs), oscs, 0, fcs, vcs)
             n == IF DOMAIN oscs = {} THEN 1 ELSE Cardinality(DOMAIN oscs)
         IN  [out |-> Some((m.sum * mult) \div n), oscillators |-> m.oscillators]

\* <AudioEngine as Iterator>::next as a function of the engine and the cells:
\* the value returned (counting 1/(Sub*TableOne*VolOne*GainOne)) and the
\* registry afterwards
AudioEngineNext(playing, oscs, mult, fcs, vcs) ==
    IF ~playing THEN [out |-> Some(0), oscillators |-> oscs]
    ELSE LET m == MixLoop(SortedIds(DOMAIN oscs), oscs, 0, fcs, vcs)
         IN  [out |-> Some(m.sum * mult), oscillators |-> m.oscillators]

\* <AudioEngine as Iterator>::next
next ==
    /\ samples < MaxSamples
    /\ LET r == AudioEngineNext(is_playing, oscillators, volume_multiple, freqCells, volCells)
       IN  /\ out' = r.out
           /\ oscillators' = r.oscillators
    /\ samples' = samples + 1
    /\ UNCHANGED <<wavetable, volume, volume_multiple, latestid, is_playing, cellVars, returned>>

\* ------------------------------------------------- the engine, one caller
\* the engine as stop() of a playing engine leaves it
Snapshot ==
    [set |-> TRUE, calls |-> 0, oscillators |-> oscillators,
     volume_multiple |-> volume_multiple, freqCells |-> freqCells, volCells |-> volCells]

NewFrequencyCell ==
    /\ \E f \in FreqInputs : SharedFrequencyNew(f)
    /\ written' = [written EXCEPT !.f = Append(written.f, None)]
    /\ frozen' = NoSnap
    /\ last' = Called("SharedFrequency::new", FALSE)
    /\ UNCHANGED <<lastSet, lastVolume, transport, solo, threadVars, fn_call, stateVars, twins>>

NewVolumeCell ==
    /\ \E v \in VolMultInputs : SharedVolumeMultiplierNew(v)
    /\ written' = [written EXCEPT !.v = Append(written.v, None)]
    /\ frozen' = NoSnap
    /\ last' = Called("SharedVolumeMultiplier::new", FALSE)
    /\ UNCHANGED <<lastSet, lastVolume, transport, solo, threadVars, fn_call, stateVars, twins>>

SetFrequency ==
    /\ \E c \in DOMAIN freqCells, f \in FreqInputs :
          /\ SharedFrequencySet(c, f)
          /\ written' = [written EXCEPT !.f[c] = Some(f)]
    /\ frozen' = NoSnap
    /\ last' = Called("SharedFrequency::set", FALSE)
    /\ UNCHANGED <<lastSet, lastVolume, transport, solo, threadVars, fn_call, stateVars, twins>>

SetVolumeMultiplier ==
    /\ \E c \in DOMAIN volCells, v \in VolMultInputs :
          /\ SharedVolumeMultiplierSet(c, v)
          /\ written' = [written EXCEPT !.v[c] = Some(v)]
    /\ frozen' = NoSnap
    /\ last' = Called("SharedVolumeMultiplier::set", FALSE)
    /\ UNCHANGED <<lastSet, lastVolume, transport, solo, threadVars, fn_call, stateVars, twins>>

AddOscillator ==
    /\ \E fc \in DOMAIN freqCells, vc \in DOMAIN volCells :
          /\ add_oscillator(fc, vc)
          /\ solo' = [i \in DOMAIN solo \cup {latestid} |->
                         IF i = latestid THEN NewOscillator(fc, vc, wavetable) ELSE solo[i]]
    /\ frozen' = NoSnap
    /\ last' = Called("add_oscillator", FALSE)
    /\ UNCHANGED <<lastSet, lastVolume, written, transport, threadVars, fn_call, stateVars, twins>>

RemoveOscillator ==
    /\ \E id \in 0..MaxIds :
          /\ remove_oscillator(id)
          /\ solo' = [i \in DOMAIN solo \ {id} |-> solo[i]]
          /\ last' = Called("remove_oscillator", id \in DOMAIN oscillators)
    /\ frozen' = NoSnap
    /\ UNCHANGED <<lastSet, lastVolume, written, transport, threadVars, fn_call, stateVars, twins>>

ClearOscillators ==
    /\ clear_oscillators
    /\ solo' = << >>
    /\ frozen' = NoSnap
    /\ last' = Called("clear_oscillators", FALSE)
    /\ UNCHANGED <<lastSet, lastVolume, written, transport, threadVars, fn_call, stateVars, twins>>

SetWaveform ==
    /\ \E k \in WaveFormInputs :
          /\ set_waveform(k)
          /\ lastSet' = [kind |-> Some(k), reset |-> FALSE]
          /\ solo' = [i \in DOMAIN solo |-> set_wavetable(solo[i], k)]
    /\ frozen' = NoSnap
    /\ last' = Called("set_waveform", FALSE)
    /\ UNCHANGED <<lastVolume, written, transport, threadVars, fn_call, stateVars, twins>>

SetVolume ==
    /\ \E g \in VolumeInputs : set_volume(g) /\ lastVolume' = Some(VolumeNew(g))
    /\ frozen' = NoSnap
    /\ last' = Called("set_volume", FALSE)
    /\ UNCHANGED <<lastSet, written, transport, solo, threadVars, fn_call, stateVars, twins>>

Reset ==
    /\ reset
    /\ lastSet' = [lastSet EXCEPT !.reset = TRUE]
    /\ lastVolume' = None
    /\ frozen' = NoSnap
    /\ last' = Called("reset", FALSE)
    /\ UNCHANGED <<written, transport, solo, threadVars, fn_call, stateVars, twins>>

Play ==
    /\ play
    /\ frozen' = IF is_playing THEN NoSnap ELSE frozen
    /\ last' = Called("play", FALSE)
    /\ transport' = "play"
    /\ UNCHANGED <<lastSet, lastVolume, written, solo, threadVars, fn_call, stateVars, twins>>

Stop ==
    /\ stop
    /\ frozen' = IF is_playing THEN Snapshot ELSE NoSnap
    /\ last' = Called("stop", FALSE)
    /\ transport' = "stop"
    /\ UNCHANGED <<lastSet, lastVolume, written, solo, threadVars, fn_call, stateVars, twins>>

Next_ ==
    /\ next
    /\ frozen' = IF frozen.set /\ ~is_playing
                 THEN [frozen EXCEPT !.calls = frozen.calls + 1]
                 ELSE NoSnap
    /\ solo' = IF is_playing
               THEN [i \in DOMAIN solo |->
                        OscNext(solo[i], freqCells[solo[i].frequency],
                                volCells[solo[i].volume_multiplier]).osc]
               ELSE solo
    /\ last' = Called("next", FALSE)
    /\ UNCHANGED <<lastSet, lastVolume, written, transport, threadVars, fn_call, stateVars, twins>>

Next ==
    \/ NewFrequencyCell
    \/ NewVolumeCell
    \/ SetFrequency
    \/ SetVolumeMultiplier
    \/ AddOscillator
    \/ RemoveOscillator
    \/ ClearOscillators
    \/ SetWaveform
    \/ SetVolume
    \/ Reset
    \/ Play
    \/ Stop
    \/ Next_

Spec == Init /\ [][Next]_vars

\* ---------------------------------------------- the pure functions, applied
\* each behaviour applies one function to one argument
ApplyVolumeGet ==
    /\ fn_call = NoFn
    /\ \E g \in GainInputs :
          fn_call' = Applied("Volume::get", "", g, VolumeGet(VolumeNew(g)))
    /\ UNCHANGED <<engineVars, cellVars, histVars, threadVars, stateVars, twins>>

ApplyVolumeMultiple ==
    /\ fn_call = NoFn
    /\ \E g \in GainInputs :
          fn_call' = Applied("Volume::multiple", "", g, VolumeMultiple(VolumeNew(g)))
    /\ UNCHANGED <<engineVars, cellVars, histVars, threadVars, stateVars, twins>>

ApplyGetIndex ==
    /\ fn_call = NoFn
    /\ \E k \in WaveForms, i \in IndexInputs :
          fn_call' = Applied("get_index", k, i, get_index(k, i))
    /\ UNCHANGED <<engineVars, cellVars, histVars, threadVars, stateVars, twins>>

ApplyGetInterpolatedValue ==
    /\ fn_call = NoFn
    /\ \E k \in WaveForms, x \in InterpolationInputs :
          fn_call' = Applied("get_interpolated_value", k, x, get_interpolated_value(k, x))
    /\ UNCHANGED <<engineVars, cellVars, histVars, threadVars, stateVars, twins>>

\* lib.rs: the crate root's copy of WaveTable::get_interpolated_value. The
\* position of the second sample is 0 only for floor = WAVETABLE_SIZE, and
\* floor + 1 otherwise; both samples are slice reads, which panic outside
\* the table.
lib_second_position(floor) == IF floor = WAVETABLE_SIZE THEN 0 ELSE floor + 1

lib_get_interpolated_value(k, x) ==
    LET index == x % PhaseSlots
        floor == index \div Sub
        sample0 == get_index(k, floor)
        sample1 == get_index(k, lib_second_position(floor))
    IN  IF sample0 = Panic \/ sample1 = Panic THEN Panic
        ELSE lerp(sample0, sample1, index - floor * Sub)

ApplyLibGetInterpolatedValue ==
    /\ fn_call = NoFn
    /\ \E k \in WaveForms, x \in InterpolationInputs :
          fn_call' = Applied("lib::get_interpolated_value", k, x,
                             lib_get_interpolated_value(k, x))
    /\ UNCHANGED <<engineVars, cellVars, histVars, threadVars, stateVars, twins>>

NextFn ==
    \/ ApplyVolumeGet
    \/ ApplyVolumeMultiple
    \/ ApplyGetIndex
    \/ ApplyGetInterpolatedValue
    \/ ApplyLibGetInterpolatedValue

SpecFn == Init /\ [][NextFn]_vars

\* ------------------------------ one oscillator, with and without the long wrap
\* WaveTableOscillator::new, twice, on the same table: both at phase 0
TwinsNew ==
    /\ ~twins.made
    /\ \E k \in WaveForms :
          twins' = [made |-> TRUE, osc |-> NewOscillator(0, 0, k),
                    unit |-> NewOscillator(0, 0, k), out |-> None,
                    steps |-> 0, wrapped |-> FALSE, lapped |-> FALSE, at |-> 0]
    /\ UNCHANGED <<engineVars, cellVars, histVars, threadVars, fn_call, stateVars>>

\* next on both, with the same frequency (per sample) and volume multiplier;
\* wrapped: the code's oscillator has passed WAVETABLE_SIZE cycles; lapped: it
\* had when the sample was read; at: its phase when the sample was read
TwinsNext ==
    /\ twins.made
    /\ twins.steps < MaxTwinSteps
    /\ \E f \in TwinFreqInputs, v \in TwinVolMultInputs :
          LET a == OscNext(twins.osc, f, v)
              b == OscNextUnitWrap(twins.unit, f, v)
          IN  twins' = [twins EXCEPT !.osc = a.osc, !.unit = b.osc,
                                     !.out = Some(<<a.ret, b.ret>>),
                                     !.steps = @ + 1,
                                     !.wrapped = @ \/ twins.osc.time + f >= PhaseWrap,
                                     !.lapped = twins.wrapped,
                                     !.at = twins.osc.time]
    /\ UNCHANGED <<engineVars, cellVars, histVars, threadVars, fn_call, stateVars>>

NextOsc ==
    \/ TwinsNew
    \/ TwinsNext

SpecOsc == Init /\ [][NextOsc]_vars

\* ------------------------------------- main.rs: two threads and the locks
\* the engine calls main.rs makes under one engine.lock(): each sequence is
\* one critical section
Call(op, a, b, k) == [op |-> op, a |-> a, b |-> b, k |-> k]

Sections ==
    {<<Call("get_volume", 0, 0, "")>>}
    \cup {<<Call("clear_oscillators", 0, 0, ""), Call("set_waveform", 0, 0, "Sine")>>}
    \cup {<<Call("clear_oscillators", 0, 0, ""), Call("set_volume", g, 0, ""),
            Call("set_waveform", 0, 0, k)>> : g \in ConcVolumeInputs, k \in ConcWaveFormInputs}
    \cup {<<Call("add_oscillator", fc, vc, "")>> : fc \in DOMAIN freqCells, vc \in DOMAIN volCells}
    \cup {<<Call("remove_oscillator", id, 0, "")>> : id \in 0..MaxIds}
    \cup {<<Call("set_waveform", 0, 0, k)>> : k \in ConcWaveFormInputs}
    \cup {<<Call("set_volume", g, 0, "")>> : g \in ConcVolumeInputs}
    \cup {<<Call("reset", 0, 0, "")>>, <<Call("play", 0, 0, "")>>, <<Call("stop", 0, 0, "")>>}

\* AudioSource::next entering the engine without waiting for the mutex
AudioLockNoWait ==
    /\ a_pc = "idle"
    /\ samples < MaxSamples
    /\ mutex' = "audio"
    /\ a_pc' = IF is_playing THEN "loop" ELSE "stopped"
    /\ a_todo' = IF is_playing THEN SortedIds(DOMAIN oscillators) ELSE << >>
    /\ a_sum' = 0
    /\ a_used' = << >>
    /\ a_snap' = [id \in DOMAIN oscillators |-> oscillators[id].wavetable]
    /\ UNCHANGED <<engineVars, cellVars, histVars, readLocked, writeLocked, a_sample, guiVars, fn_call, stateVars, twins>>

\* self.0.lock().unwrap() of AudioSource::next, and the head of
\* AudioEngine::next: the is_playing test and the start of the loop
AudioLock ==
    /\ a_pc = "idle"
    /\ samples < MaxSamples
    /\ mutex = "free"
    /\ mutex' = "audio"
    /\ a_pc' = IF is_playing THEN "loop" ELSE "stopped"
    /\ a_todo' = IF is_playing THEN SortedIds(DOMAIN oscillators) ELSE << >>
    /\ a_sum' = 0
    /\ a_used' = << >>
    /\ a_snap' = [id \in DOMAIN oscillators |-> oscillators[id].wavetable]
    /\ UNCHANGED <<engineVars, cellVars, histVars, readLocked, writeLocked, a_sample, guiVars, fn_call, stateVars, twins>>

\* osc.next(), first statement: the table lookup at the current phase
AudioLookup ==
    /\ a_pc = "loop"
    /\ a_todo # << >>
    /\ Head(a_todo) \in DOMAIN oscillators
    /\ LET id == Head(a_todo)
           osc == oscillators[id]
       IN  /\ a_sample' = get_interpolated_value(osc.wavetable, osc.time)
           /\ a_used' = [i \in DOMAIN a_used \cup {id} |->
                            IF i = id THEN osc.wavetable ELSE a_used[i]]
    /\ a_pc' = "freq"
    /\ UNCHANGED <<engineVars, cellVars, histVars, lockVars, a_todo, a_sum, a_snap, guiVars, fn_call, stateVars, twins>>

\* self.frequency.get(): RwLock::read
AudioFreqLock ==
    /\ a_pc = "freq"
    /\ Head(a_todo) \in DOMAIN oscillators
    /\ LET c == <<"f", oscillators[Head(a_todo)].frequency>>
       IN  /\ c \notin writeLocked
           /\ readLocked' = readLocked \cup {c}
    /\ a_pc' = "freq_read"
    /\ UNCHANGED <<engineVars, cellVars, histVars, mutex, writeLocked,
                   a_todo, a_sum, a_sample, a_used, a_snap, guiVars, fn_call, stateVars, twins>>

\* the read, the guard's drop, and self.time += ...; self.time %= ...
AudioFreqRead ==
    /\ a_pc = "freq_read"
    /\ Head(a_todo) \in DOMAIN oscillators
    /\ LET id == Head(a_todo)
           osc == oscillators[id]
           f == freqCells[osc.frequency]
       IN  /\ readLocked' = readLocked \ {<<"f", osc.frequency>>}
           /\ oscillators' = [oscillators EXCEPT ![id] = OscNext(osc, f, 0).osc]
    /\ a_pc' = "vol"
    /\ UNCHANGED <<wavetable, volume, volume_multiple, latestid, is_playing, cellVars, histVars,
                   mutex, writeLocked, a_todo, a_sum, a_sample, a_used, a_snap, guiVars, fn_call, stateVars, twins>>

\* self.volume_multiplier.get(): RwLock::read
AudioVolLock ==
    /\ a_pc = "vol"
    /\ Head(a_todo) \in DOMAIN oscillators
    /\ LET c == <<"v", oscillators[Head(a_todo)].volume_multiplier>>
       IN  /\ c \notin writeLocked
           /\ readLocked' = readLocked \cup {c}
    /\ a_pc' = "vol_read"
    /\ UNCHANGED <<engineVars, cellVars, histVars, mutex, writeLocked,
                   a_todo, a_sum, a_sample, a_used, a_snap, guiVars, fn_call, stateVars, twins>>

\* the read, the guard's drop, Some(sample * v), and sum += in the engine's loop
AudioVolRead ==
    /\ a_pc = "vol_read"
    /\ Head(a_todo) \in DOMAIN oscillators
    /\ LET osc == oscillators[Head(a_todo)]
       IN  /\ readLocked' = readLocked \ {<<"v", osc.volume_multiplier>>}
           /\ a_sum' = a_sum + a_sample * volCells[osc.volume_multiplier]
    /\ a_todo' = Tail(a_todo)
    /\ a_pc' = "loop"
    /\ UNCHANGED <<engineVars, cellVars, histVars, mutex, writeLocked,
                   a_sample, a_used, a_snap, guiVars, fn_call, stateVars, twins>>

\* the end of AudioEngine::next and the drop of the MutexGuard
AudioReturn ==
    /\ \/ a_pc = "stopped" /\ out' = Some(0)
       \/ a_pc = "loop" /\ a_todo = << >> /\ out' = Some(a_sum * volume_multiple)
    /\ samples' = samples + 1
    /\ mutex' = "free"
    /\ a_pc' = "idle"
    /\ a_todo' = << >>
    /\ a_sum' = 0
    /\ a_sample' = 0
    /\ a_used' = << >>
    /\ a_snap' = << >>
    /\ UNCHANGED <<engineVars, cellVars, returned, lastSet, lastVolume, frozen, written, last, transport, solo,
                   readLocked, writeLocked, guiVars, fn_call, stateVars, twins>>

\* the control thread entering the engine without waiting for the mutex
GuiLockNoWait ==
    /\ g_pc = "idle"
    /\ mutex' = "gui"
    /\ g_pc' = "locked"
    /\ UNCHANGED <<engineVars, cellVars, histVars, readLocked, writeLocked, audioVars, g_calls, g_cell, fn_call, stateVars, twins>>

\* self.engine.lock().unwrap() of the control thread
GuiLock ==
    /\ g_pc = "idle"
    /\ mutex = "free"
    /\ mutex' = "gui"
    /\ g_pc' = "locked"
    /\ UNCHANGED <<engineVars, cellVars, histVars, readLocked, writeLocked, audioVars, g_calls, g_cell, fn_call, stateVars, twins>>

\* one engine call under the guard: the first call of a critical section, or
\* the next call of the section under way
GuiCall ==
    /\ g_pc \in {"locked", "calling"}
    /\ \E sec \in (IF g_pc = "locked" THEN Sections ELSE {g_calls}) :
          /\ sec # << >>
          /\ LET c == Head(sec)
             IN  \/ c.op = "get_volume" /\ UNCHANGED <<engineVars, cellVars, retVars, lastSet, lastVolume>>
                 \/ c.op = "add_oscillator" /\ add_oscillator(c.a, c.b) /\ UNCHANGED <<lastSet, lastVolume>>
                 \/ c.op = "remove_oscillator" /\ remove_oscillator(c.a) /\ UNCHANGED <<lastSet, lastVolume>>
                 \/ c.op = "clear_oscillators" /\ clear_oscillators /\ UNCHANGED <<lastSet, lastVolume>>
                 \/ c.op = "set_waveform" /\ set_waveform(c.k)
                      /\ lastSet' = [kind |-> Some(c.k), reset |-> FALSE]
                      /\ UNCHANGED lastVolume
                 \/ c.op = "set_volume" /\ set_volume(c.a)
                      /\ lastVolume' = Some(VolumeNew(c.a)) /\ UNCHANGED lastSet
                 \/ c.op = "reset" /\ reset /\ lastSet' = [lastSet EXCEPT !.reset = TRUE]
                      /\ lastVolume' = None
                 \/ c.op = "play" /\ play /\ UNCHANGED <<lastSet, lastVolume>>
                 \/ c.op = "stop" /\ stop /\ UNCHANGED <<lastSet, lastVolume>>
          /\ g_calls' = Tail(sec)
    /\ g_pc' = "calling"
    /\ UNCHANGED <<frozen, written, last, transport, solo, lockVars, audioVars, g_cell, fn_call, stateVars, twins>>

\* the drop of the control thread's MutexGuard
GuiUnlock ==
    /\ g_pc = "calling"
    /\ g_calls = << >>
    /\ mutex' = "free"
    /\ g_pc' = "idle"
    /\ UNCHANGED <<engineVars, cellVars, histVars, readLocked, writeLocked, audioVars, g_calls, g_cell, fn_call, stateVars, twins>>

\* SharedFrequency::new / SharedVolumeMultiplier::new on the control thread
GuiNewCell ==
    /\ g_pc = "idle"
    /\ \/ \E f \in ConcFreqInputs : SharedFrequencyNew(f)
       \/ \E v \in ConcVolMultInputs : SharedVolumeMultiplierNew(v)
    /\ UNCHANGED <<lastSet, lastVolume, frozen, written, last, transport, solo, threadVars, fn_call, stateVars, twins>>

\* every cell constructed so far
AllCells == ({"f"} \X DOMAIN freqCells) \cup ({"v"} \X DOMAIN volCells)

\* set() taking the engine mutex before the cell's lock
CellWriteLockAfterEngine(c) ==
    /\ g_pc = "idle"
    /\ mutex = "free"
    /\ c \in AllCells
    /\ c \notin readLocked
    /\ c \notin writeLocked
    /\ writeLocked' = writeLocked \cup {c}
    /\ g_cell' = c
    /\ g_pc' = "cell"
    /\ UNCHANGED <<engineVars, cellVars, histVars, mutex, readLocked, audioVars, g_calls, fn_call, stateVars, twins>>

\* set() of the retained handle of cell c: RwLock::write
CellWriteLock(c) ==
    /\ g_pc = "idle"
    /\ c \in AllCells
    /\ c \notin readLocked
    /\ c \notin writeLocked
    /\ writeLocked' = writeLocked \cup {c}
    /\ g_cell' = c
    /\ g_pc' = "cell"
    /\ UNCHANGED <<engineVars, cellVars, histVars, mutex, readLocked, audioVars, g_calls, fn_call, stateVars, twins>>

GuiCellLock == \E c \in AllCells : CellWriteLock(c)

\* set() storing only once the engine mutex is free
GuiCellStoreUnderEngine ==
    /\ g_pc = "cell"
    /\ mutex = "free"
    /\ \/ g_cell[1] = "f" /\ \E f \in ConcFreqInputs : SharedFrequencySet(g_cell[2], f)
       \/ g_cell[1] = "v" /\ \E v \in ConcVolMultInputs : SharedVolumeMultiplierSet(g_cell[2], v)
    /\ writeLocked' = writeLocked \ {g_cell}
    /\ g_pc' = "idle"
    /\ g_cell' = << >>
    /\ UNCHANGED <<lastSet, lastVolume, frozen, written, last, transport, solo, mutex, readLocked, audioVars,
                   g_calls, fn_call, stateVars, twins>>

\* the store and the drop of the write guard
GuiCellStore ==
    /\ g_pc = "cell"
    /\ \/ g_cell[1] = "f" /\ \E f \in ConcFreqInputs : SharedFrequencySet(g_cell[2], f)
       \/ g_cell[1] = "v" /\ \E v \in ConcVolMultInputs : SharedVolumeMultiplierSet(g_cell[2], v)
    /\ writeLocked' = writeLocked \ {g_cell}
    /\ g_pc' = "idle"
    /\ g_cell' = << >>
    /\ UNCHANGED <<lastSet, lastVolume, frozen, written, last, transport, solo, mutex, readLocked, audioVars,
                   g_calls, fn_call, stateVars, twins>>

NextConc ==
    \/ AudioLock
    \/ AudioLookup
    \/ AudioFreqLock
    \/ AudioFreqRead
    \/ AudioVolLock
    \/ AudioVolRead
    \/ AudioReturn
    \/ GuiLock
    \/ GuiCall
    \/ GuiUnlock
    \/ GuiNewCell
    \/ GuiCellLock
    \/ GuiCellStore

SpecConc == Init /\ [][NextConc]_vars

\* the steps that carry on an operation already begun
AudioStep ==
    AudioLookup \/ AudioFreqLock \/ AudioFreqRead \/ AudioVolLock \/ AudioVolRead \/ AudioReturn

GuiStep == GuiCall \/ GuiUnlock \/ GuiCellStore

\* Scheduling: a thread that can run does run (weak fairness of each thread's
\* steps), and a thread waiting for a cell's lock gets it when the lock is
\* released often enough (strong fairness of the two read acquisitions).
\* Nothing obliges either thread to begin a new operation.
SpecConcFair ==
    /\ SpecConc
    /\ WF_vars(AudioLookup \/ AudioFreqRead \/ AudioVolRead \/ AudioReturn)
    /\ SF_vars(AudioFreqLock)
    /\ SF_vars(AudioVolLock)
    /\ WF_vars(GuiStep)

\* ------------------------------------------------ main.rs: the GUI's State
\* The messages State::update handles, one action each, and the two file
\* tasks it starts.  The engine calls of one handler are made in the order
\* the handler makes them, on the engine as a value.  In this specification
\* a frequency cell counts Hz and a volume cell counts 1/GainOne, the unit
\* of Volume::multiple.  The file on disk holds the StateSave that was
\* written (postcard's encoding is taken as lossless); a failed or cancelled
\* file task leaves the disk as it was.

\* Message::AddGlobalFrequency's frequency
NewGlobalFrequency == 42

\* the frequency of the cell of an entry without a global frequency
FallbackFrequency == 220

\* Message::AddRelativeFrequency's volume
NewRelativeVolume == 0 - 2

\* the slider value State::set_volume takes for silence
SilentVolume == 0 - 10

\* Message::AddRelativeFrequency's RelativeFrequency::new(0, Ratio::new(1, 1), -2.0)
NewRelativeFrequency ==
    [absolute_frequency_id |-> 0, ratio |-> [numerator |-> 1, denominator |-> 1],
     volume |-> NewRelativeVolume]

\* GlobalFrequency::new
GlobalFrequencyNew(id, f) == [id |-> id, frequency |-> f]

\* global_frequency.frequency() * ratio.multiplicand(), in exact arithmetic
TimesRatio(gf, ratio) == (gf.frequency * ratio.numerator) \div ratio.denominator

\* the AudioEngine and the cells as one value
TheEngine ==
    [wavetable |-> wavetable, oscillators |-> oscillators, volume |-> volume,
     volume_multiple |-> volume_multiple, latestid |-> latestid,
     freqCells |-> freqCells, volCells |-> volCells]

\* the engine and the cells a handler leaves; the counters are capped
Becomes(e) ==
    /\ e.latestid <= MaxGuiIds
    /\ wavetable' = e.wavetable
    /\ oscillators' = e.oscillators
    /\ volume' = e.volume
    /\ volume_multiple' = e.volume_multiple
    /\ latestid' = e.latestid
    /\ freqCells' = e.freqCells
    /\ volCells' = e.volCells

\* AudioEngine::add_oscillator on e; the id it returns is e.latestid
add_oscillator_to(e, fc, vc) ==
    [e EXCEPT !.oscillators = [i \in DOMAIN e.oscillators \cup {e.latestid} |->
                                  IF i = e.latestid THEN NewOscillator(fc, vc, e.wavetable)
                                  ELSE e.oscillators[i]],
              !.latestid = e.latestid + 1]

\* AudioEngine::remove_oscillator on e
remove_oscillator_from(e, id) ==
    [e EXCEPT !.oscillators = [i \in DOMAIN e.oscillators \ {id} |-> e.oscillators[i]]]

\* AudioEngine::clear_oscillators on e
clear_oscillators_of(e) == [e EXCEPT !.oscillators = << >>]

\* AudioEngine::set_waveform on e
set_waveform_of(e, k) ==
    [e EXCEPT !.oscillators = [i \in DOMAIN e.oscillators |->
                                  set_wavetable(e.oscillators[i], k)],
              !.wavetable = k]

\* set_volume on e storing the multiplier alone
set_volume_of_multiple_only(e, vol) ==
    [e EXCEPT !.volume_multiple = VolumeMultiple(vol)]

\* AudioEngine::set_volume on e
set_volume_of(e, vol) ==
    [e EXCEPT !.volume_multiple = VolumeMultiple(vol), !.volume = vol]

\* AudioEngine::reset on e
reset_of(e) ==
    [e EXCEPT !.volume = VolumeNew(DefaultVolume),
              !.volume_multiple = VolumeMultiple(VolumeNew(DefaultVolume)),
              !.wavetable = "Sine"]

\* Arc::new: the cell a new Arc gets, the first one that is free
NewCell(cells) ==
    CHOOSE c \in 1..(Cardinality(DOMAIN cells) + 1) :
        /\ c \notin DOMAIN cells
        /\ \A d \in 1..(c - 1) : d \in DOMAIN cells

\* a cell store with the cell c holding v
WithCell(cells, c, v) ==
    [d \in DOMAIN cells \cup {c} |-> IF d = c THEN v ELSE cells[d]]

\* SharedFrequency::new on e; the new cell is NewCell(e.freqCells)
SharedFrequencyNewIn(e, f) ==
    [e EXCEPT !.freqCells = WithCell(e.freqCells, NewCell(e.freqCells), f)]

\* SharedVolumeMultiplier::new on e; the new cell is NewCell(e.volCells)
SharedVolumeMultiplierNewIn(e, v) ==
    [e EXCEPT !.volCells = WithCell(e.volCells, NewCell(e.volCells), v)]

\* the drop of the last Arc of an entry's two cells
DropCells(e, entry) ==
    [e EXCEPT !.freqCells = [c \in DOMAIN e.freqCells \ {entry.shared_frequency} |->
                                e.freqCells[c]],
              !.volCells = [c \in DOMAIN e.volCells \ {entry.shared_volume_multiplier} |->
                               e.volCells[c]]]

\* the drop of every cell, as the State that held them is replaced
DropAllCells(e) == [e EXCEPT !.freqCells = << >>, !.volCells = << >>]

\* SharedFrequency::set on e
SharedFrequencySetIn(e, c, f) == [e EXCEPT !.freqCells[c] = f]

\* SharedVolumeMultiplier::set on e: clamp(0.0, 1.0), counting 1/GainOne
SharedVolumeMultiplierSetIn(e, c, v) ==
    [e EXCEPT !.volCells[c] = IF v < 0 THEN 0 ELSE IF v > GainOne THEN GainOne ELSE v]

\* an entry of State.relative_frequencies
Entry(rf, id, fc, vc) ==
    [relative_frequency |-> rf, oscillator_id |-> id,
     shared_frequency |-> fc, shared_volume_multiplier |-> vc]

\* State::to_save
to_save ==
    LET keys == SortedIds(DOMAIN relative_frequencies)
    IN  [volume |-> state_volume, waveform |-> state_waveform,
         global_frequencies |-> global_frequencies,
         relative_frequencies |->
             [i \in 1..Len(keys) |-> relative_frequencies[keys[i]].relative_frequency]]

\* State::unsave
unsave(f) == IF f = None THEN None ELSE Some([f[1] EXCEPT !.saved = FALSE])

\* State::initialize_oscillator: the engine it leaves, the oscillator id and
\* frequency cell when it made a voice (cell 0: none), and the volume cell
initialize_oscillator(e, gfs, rf) ==
    LET e1 == SharedVolumeMultiplierNewIn(e, VolumeMultiple(VolumeNew(rf.volume)))
        vc == NewCell(e.volCells)
    IN  IF rf.absolute_frequency_id \notin DOMAIN gfs
        THEN [e |-> e1, id |-> None, shared_frequency |-> 0,
              shared_volume_multiplier |-> vc]
        ELSE LET e2 == SharedFrequencyNewIn(e1,
                           TimesRatio(gfs[rf.absolute_frequency_id], rf.ratio))
                 fc == NewCell(e1.freqCells)
             IN  [e |-> add_oscillator_to(e2, fc, vc), id |-> Some(e2.latestid),
                  shared_frequency |-> fc, shared_volume_multiplier |-> vc]

\* the match on initialize_oscillator's result, in add_relative_frequency and
\* in from_save: the engine it leaves and the entry
Initialized(e, gfs, rf) ==
    LET r == initialize_oscillator(e, gfs, rf)
    IN  IF r.id = None
        THEN LET e1 == SharedFrequencyNewIn(r.e, FallbackFrequency)
             IN  [e |-> e1,
                  entry |-> Entry(rf, None, NewCell(r.e.freqCells),
                                  r.shared_volume_multiplier)]
        ELSE [e |-> r.e,
              entry |-> Entry(rf, r.id, r.shared_frequency, r.shared_volume_multiplier)]

\* from_save's enumerate().map(..).collect(): the entries from the index-th
\* saved relative frequency on, added to rfs
RECURSIVE Collect(_, _, _, _)
Collect(e, save, index, rfs) ==
    IF index >= Len(save.relative_frequencies) THEN [e |-> e, relative_frequencies |-> rfs]
    ELSE LET r == Initialized(e, save.global_frequencies,
                              save.relative_frequencies[index + 1])
         IN  Collect(r.e, save, index + 1,
                     [k \in DOMAIN rfs \cup {index} |->
                         IF k = index THEN r.entry ELSE rfs[k]])

\* State::from_save: the engine it leaves and the entries
from_save(e, save) ==
    Collect(set_waveform_of(set_volume_of(clear_oscillators_of(DropAllCells(e)),
                                          save.volume),
                            save.waveform),
            save, 0, << >>)

\* BTreeMap::last_key_value().map(|(id, _)| id + 1).unwrap_or(d)
NextKey(m, d) ==
    IF DOMAIN m = {} THEN d
    ELSE (CHOOSE k \in DOMAIN m : \A j \in DOMAIN m : j <= k) + 1

\* update_global_frequency writing the cell of every entry, whichever global
\* frequency it references
update_global_frequency_every_entry(id, f) ==
    IF id \notin DOMAIN global_frequencies
    THEN UNCHANGED <<global_frequencies, engineVars, cellVars>>
    ELSE LET gf == [global_frequencies[id] EXCEPT !.frequency = f]
         IN  /\ global_frequencies' = [global_frequencies EXCEPT ![id] = gf]
             /\ freqCells' =
                    [c \in DOMAIN freqCells |->
                        IF \E k \in DOMAIN relative_frequencies :
                               relative_frequencies[k].shared_frequency = c
                        THEN LET k == CHOOSE k \in DOMAIN relative_frequencies :
                                          relative_frequencies[k].shared_frequency = c
                             IN  TimesRatio(gf, relative_frequencies[k]
                                                    .relative_frequency.ratio)
                        ELSE freqCells[c]]
             /\ UNCHANGED <<engineVars, volCells>>

\* State::update_global_frequency(id, FrequencyUpdated(f))
update_global_frequency(id, f) ==
    IF id \notin DOMAIN global_frequencies
    THEN UNCHANGED <<global_frequencies, engineVars, cellVars>>
    ELSE LET gf == [global_frequencies[id] EXCEPT !.frequency = f]
             hit == {k \in DOMAIN relative_frequencies :
                        relative_frequencies[k].relative_frequency
                            .absolute_frequency_id = id}
         IN  /\ global_frequencies' = [global_frequencies EXCEPT ![id] = gf]
             /\ freqCells' =
                    [c \in DOMAIN freqCells |->
                        IF \E k \in hit : relative_frequencies[k].shared_frequency = c
                        THEN LET k == CHOOSE k \in hit :
                                          relative_frequencies[k].shared_frequency = c
                             IN  TimesRatio(gf, relative_frequencies[k]
                                                    .relative_frequency.ratio)
                        ELSE freqCells[c]]
             /\ UNCHANGED <<engineVars, volCells>>

\* the arm of State::update for Message::GlobalFrequencyUpdated(id,
\* FrequencyUpdated(f))
GlobalFrequencyHandled(id, f) ==
    /\ update_global_frequency(id, f)
    /\ file' = unsave(file)
    /\ UNCHANGED <<relative_frequencies, state_volume, state_waveform, is_loading,
                   task, disk, histVars, threadVars, twins>>

\* Message::GlobalFrequencyUpdated
GlobalFrequencyUpdated ==
    /\ \E id \in 1..MaxGlobal, f \in GlobalFrequencyInputs : GlobalFrequencyHandled(id, f)
    /\ UNCHANGED fn_call

\* a GUI message handled, as fn_call records it: the message, the id it
\* names (a) and the frequency it carries (r)
Handled(message, id, f) == [fn |-> message, k |-> "", a |-> id, r |-> f]

\* Message::GlobalFrequencyUpdated, once, for an id that exists or not and a
\* frequency of EditFrequencyInputs, with the message recorded
GlobalFrequencyUpdatedOnce ==
    /\ fn_call = NoFn
    /\ \E id \in 1..(MaxGlobal + 1), f \in EditFrequencyInputs :
          /\ GlobalFrequencyHandled(id, f)
          /\ fn_call' = Handled("GlobalFrequencyUpdated", id, f)

\* RelativeFrequency::update: the element it leaves and the update it returns
RelativeFrequencyUpdate(rf, m) ==
    IF m.kind = "AbsoluteFrequencyIdUpdated"
    THEN [rf |-> [rf EXCEPT !.absolute_frequency_id = m.value],
          state_update |-> "FrequencyUpdated"]
    ELSE IF m.kind = "NumeratorUpdated"
    THEN [rf |-> [rf EXCEPT !.ratio.numerator = m.value],
          state_update |-> "FrequencyUpdated"]
    ELSE IF m.kind = "DenominatorUpdated"
    THEN [rf |-> [rf EXCEPT !.ratio.denominator = m.value],
          state_update |-> "FrequencyUpdated"]
    ELSE [rf |-> [rf EXCEPT !.volume = m.value], state_update |-> "VolumeUpdated"]

\* the RelativeFrequencyMessages the view of an entry can send
RelativeFrequencyMessages ==
    [kind : {"AbsoluteFrequencyIdUpdated"},
     value : 0..Cardinality(DOMAIN global_frequencies)]
    \cup [kind : {"NumeratorUpdated"}, value : NumeratorInputs]
    \cup [kind : {"DenominatorUpdated"}, value : DenominatorInputs]
    \cup [kind : {"VolumeUpdated"}, value : RelativeVolumeInputs]

\* State::update_relative_frequency, for an entry that exists: the engine it
\* leaves and the entry
update_relative_frequency(e, gfs, entry, m) ==
    LET e1 == IF entry.oscillator_id = None
              THEN add_oscillator_to(e, entry.shared_frequency,
                                     entry.shared_volume_multiplier)
              ELSE e
        oscillator_id == IF entry.oscillator_id = None THEN e.latestid
                         ELSE entry.oscillator_id[1]
        u == RelativeFrequencyUpdate(entry.relative_frequency, m)
        updated == [entry EXCEPT !.relative_frequency = u.rf,
                                 !.oscillator_id = Some(oscillator_id)]
    IN  IF u.state_update = "FrequencyUpdated"
        THEN IF u.rf.absolute_frequency_id \in DOMAIN gfs
             THEN [e |-> SharedFrequencySetIn(e1, entry.shared_frequency,
                             TimesRatio(gfs[u.rf.absolute_frequency_id], u.rf.ratio)),
                   entry |-> updated]
             ELSE [e |-> remove_oscillator_from(e1, oscillator_id),
                   entry |-> [updated EXCEPT !.oscillator_id = None]]
        ELSE [e |-> SharedVolumeMultiplierSetIn(e1, entry.shared_volume_multiplier,
                        VolumeMultiple(VolumeNew(u.rf.volume))),
              entry |-> updated]

\* the RelativeFrequencyMessages of an entry with the wider ratios
EditRelativeFrequencyMessages ==
    [kind : {"AbsoluteFrequencyIdUpdated"},
     value : 0..Cardinality(DOMAIN global_frequencies)]
    \cup [kind : {"NumeratorUpdated"}, value : EditNumeratorInputs]
    \cup [kind : {"DenominatorUpdated"}, value : EditDenominatorInputs]
    \cup [kind : {"VolumeUpdated"}, value : RelativeVolumeInputs]

\* the arm of State::update for Message::RelativeFrequencyUpdated(id, m)
RelativeFrequencyHandled(id, m) ==
    /\ IF id \notin DOMAIN relative_frequencies
       THEN UNCHANGED <<relative_frequencies, engineVars, cellVars>>
       ELSE LET r == update_relative_frequency(TheEngine, global_frequencies,
                                               relative_frequencies[id], m)
            IN  /\ Becomes(r.e)
                /\ relative_frequencies' = [relative_frequencies EXCEPT ![id] = r.entry]
                /\ UNCHANGED is_playing
    /\ file' = unsave(file)
    /\ UNCHANGED <<global_frequencies, state_volume, state_waveform, is_loading,
                   task, disk, histVars, threadVars, fn_call, twins>>

\* Message::RelativeFrequencyUpdated
RelativeFrequencyUpdated ==
    \E id \in 0..(MaxKeys - 1), m \in RelativeFrequencyMessages :
        RelativeFrequencyHandled(id, m)

\* Message::RelativeFrequencyUpdated with the wider ratios
EditRelativeFrequencyUpdated ==
    \E id \in 0..(MaxKeys - 1), m \in EditRelativeFrequencyMessages :
        RelativeFrequencyHandled(id, m)

\* delete_relative_frequency leaving the entry's voice in the engine
delete_relative_frequency_keeping_voice(e, rfs, id) ==
    [e |-> e, relative_frequencies |-> [k \in DOMAIN rfs \ {id} |-> rfs[k]]]

\* State::delete_relative_frequency: the engine it leaves and the entries
delete_relative_frequency(e, rfs, id) ==
    IF id \notin DOMAIN rfs THEN [e |-> e, relative_frequencies |-> rfs]
    ELSE [e |-> IF rfs[id].oscillator_id = None THEN DropCells(e, rfs[id])
                ELSE DropCells(remove_oscillator_from(e, rfs[id].oscillator_id[1]),
                               rfs[id]),
          relative_frequencies |-> [k \in DOMAIN rfs \ {id} |-> rfs[k]]]

\* Message::RelativeFrequencyDeleted
RelativeFrequencyDeleted ==
    /\ \E id \in 0..(MaxKeys - 1) :
          LET r == delete_relative_frequency(TheEngine, relative_frequencies, id)
          IN  /\ Becomes(r.e)
              /\ relative_frequencies' = r.relative_frequencies
    /\ file' = unsave(file)
    /\ UNCHANGED <<is_playing, global_frequencies, state_volume, state_waveform,
                   is_loading, task, disk, histVars, threadVars, fn_call, twins>>

\* Message::AddGlobalFrequency: State::add_global_frequency(42.0)
AddGlobalFrequency ==
    /\ Cardinality(DOMAIN global_frequencies) < MaxGlobal
    /\ LET latest_id == NextKey(global_frequencies, 1)
       IN  global_frequencies' =
               [k \in DOMAIN global_frequencies \cup {latest_id} |->
                   IF k = latest_id THEN GlobalFrequencyNew(latest_id, NewGlobalFrequency)
                   ELSE global_frequencies[k]]
    /\ file' = unsave(file)
    /\ UNCHANGED <<engineVars, cellVars, relative_frequencies, state_volume,
                   state_waveform, is_loading, task, disk, histVars,
                   threadVars, fn_call, twins>>

\* Message::AddRelativeFrequency: State::add_relative_frequency
AddRelativeFrequency ==
    /\ NextKey(relative_frequencies, 0) < MaxKeys
    /\ LET r == Initialized(TheEngine, global_frequencies, NewRelativeFrequency)
           latest_id == NextKey(relative_frequencies, 0)
       IN  /\ Becomes(r.e)
           /\ relative_frequencies' =
                  [k \in DOMAIN relative_frequencies \cup {latest_id} |->
                      IF k = latest_id THEN r.entry ELSE relative_frequencies[k]]
    /\ file' = unsave(file)
    /\ UNCHANGED <<is_playing, global_frequencies, state_volume, state_waveform,
                   is_loading, task, disk, histVars, threadVars, fn_call, twins>>

\* Message::WaveFormUpdated: State::set_waveform
WaveFormUpdated ==
    /\ \E k \in GuiWaveFormInputs :
          /\ Becomes(set_waveform_of(TheEngine, k))
          /\ state_waveform' = k
    /\ file' = unsave(file)
    /\ UNCHANGED <<is_playing, global_frequencies, relative_frequencies, state_volume,
                   is_loading, task, disk, histVars, threadVars, fn_call, twins>>

\* Message::VolumeUpdated: State::set_volume
VolumeUpdated ==
    /\ \E v \in GuiVolumeInputs :
          LET vol == VolumeNew(IF v = SilentVolume THEN NegInf ELSE v)
          IN  /\ Becomes(set_volume_of(TheEngine, vol))
              /\ state_volume' = vol
    /\ file' = unsave(file)
    /\ UNCHANGED <<is_playing, global_frequencies, relative_frequencies, state_waveform,
                   is_loading, task, disk, histVars, threadVars, fn_call, twins>>

\* NewFile without the test of is_loading
NewFileWhileLoading ==
    /\ LET e == reset_of(TheEngine)
       IN  /\ Becomes(set_waveform_of(clear_oscillators_of(DropAllCells(e)), "Sine"))
           /\ state_volume' = e.volume
           /\ state_waveform' = "Sine"
           /\ global_frequencies' = << >>
           /\ relative_frequencies' = << >>
           /\ file' = None
           /\ is_loading' = FALSE
           /\ UNCHANGED is_playing
    /\ UNCHANGED <<task, disk, histVars, threadVars, fn_call, twins>>

\* Message::NewFile: reset(), then State::new
NewFile ==
    /\ IF is_loading
       THEN UNCHANGED <<engineVars, cellVars, global_frequencies, relative_frequencies,
                        state_volume, state_waveform, file>>
       ELSE LET e == reset_of(TheEngine)
            IN  /\ Becomes(set_waveform_of(clear_oscillators_of(DropAllCells(e)), "Sine"))
                /\ state_volume' = e.volume
                /\ state_waveform' = "Sine"
                /\ global_frequencies' = << >>
                /\ relative_frequencies' = << >>
                /\ file' = None
                /\ UNCHANGED is_playing
    /\ UNCHANGED <<is_loading, task, disk, histVars, threadVars, fn_call, twins>>

\* Message::SaveFile: starts save_file(None, to_save())
SaveFile ==
    /\ IF is_loading THEN UNCHANGED <<is_loading, task>>
       ELSE /\ is_loading' = TRUE
            /\ task' = [fn |-> "save_file", state_save |-> Some(to_save)]
    /\ UNCHANGED <<engineVars, cellVars, global_frequencies, relative_frequencies,
                   state_volume, state_waveform, file, disk, histVars,
                   threadVars, fn_call, twins>>

\* Message::OpenFile: starts open_file()
OpenFile ==
    /\ IF is_loading THEN UNCHANGED <<is_loading, task>>
       ELSE /\ is_loading' = TRUE
            /\ task' = [fn |-> "open_file", state_save |-> None]
    /\ UNCHANGED <<engineVars, cellVars, global_frequencies, relative_frequencies,
                   state_volume, state_waveform, file, disk, histVars,
                   threadVars, fn_call, twins>>

\* the task save_file(None, state_save) and Message::StateSaved with its
\* result: the dialog gave a path and the file was written, or the task failed
StateSaved ==
    /\ task.fn = "save_file"
    /\ is_loading' = FALSE
    /\ \/ \E path \in Paths :
             /\ disk' = [disk EXCEPT ![path] = task.state_save]
             /\ file' = Some([path |-> path, saved |-> TRUE])
       \/ UNCHANGED <<disk, file>>
    /\ task' = NoTask
    /\ UNCHANGED <<engineVars, cellVars, global_frequencies, relative_frequencies,
                   state_volume, state_waveform, histVars, threadVars, fn_call, twins>>

\* the task open_file() and Message::SaveLoaded with its result: the dialog
\* gave a file and it was read (State::from_save), or the task failed
SaveLoaded ==
    /\ task.fn = "open_file"
    /\ is_loading' = FALSE
    /\ \/ \E path \in Paths :
             /\ disk[path] # None
             /\ LET save == disk[path][1]
                    r == from_save(TheEngine, save)
                IN  /\ Becomes(r.e)
                    /\ state_volume' = save.volume
                    /\ state_waveform' = save.waveform
                    /\ global_frequencies' = save.global_frequencies
                    /\ relative_frequencies' = r.relative_frequencies
                    /\ file' = Some([path |-> path, saved |-> TRUE])
                    /\ UNCHANGED is_playing
       \/ UNCHANGED <<engineVars, cellVars, global_frequencies, relative_frequencies,
                      state_volume, state_waveform, file>>
    /\ task' = NoTask
    /\ UNCHANGED <<disk, histVars, threadVars, fn_call, twins>>

NextGui ==
    \/ GlobalFrequencyUpdated
    \/ RelativeFrequencyUpdated
    \/ RelativeFrequencyDeleted
    \/ AddGlobalFrequency
    \/ AddRelativeFrequency
    \/ WaveFormUpdated
    \/ VolumeUpdated
    \/ NewFile
    \/ SaveFile
    \/ OpenFile
    \/ SaveLoaded
    \/ StateSaved

SpecGui == Init /\ [][NextGui]_vars

\* the editing messages alone, on a project that is never saved or opened,
\* with ratios other than 1/1 and one recorded GlobalFrequencyUpdated
NextGuiEdit ==
    \/ AddGlobalFrequency
    \/ AddRelativeFrequency
    \/ EditRelativeFrequencyUpdated
    \/ RelativeFrequencyDeleted
    \/ GlobalFrequencyUpdatedOnce

SpecGuiEdit == Init /\ [][NextGuiEdit]_vars

\* ------------------------------------------------------------------ claims
\* C1: the ids add_oscillator returns start at 0 and each is greater than
\* every id returned before it, whatever was removed or cleared in between.
C1_IdsStrictlyIncrease ==
    /\ Len(returned) > 0 => returned[1] = 0
    /\ \A i, j \in DOMAIN returned : i < j => returned[i] < returned[j]

\* two ids were returned and the voice of the first is no longer registered
C1_Witness == returned = <<0, 1>> /\ DOMAIN oscillators = {1}

\* C2: a call of next on a stopped engine returns 0.0 and changes no voice
\* (phase, table) and no cell.
C2_StoppedNextFreezes ==
    [][(samples' # samples /\ ~is_playing) =>
          (out' = Some(0) /\ UNCHANGED <<oscillators, freqCells, volCells>>)]_vars

\* next has returned on a stopped engine holding a voice that is mid-cycle
C2_Witness ==
    /\ ~is_playing
    /\ out = Some(0)
    /\ \E id \in DOMAIN oscillators : oscillators[id].time # 0

\* the value of one voice's own next in the current state
VoiceNext(id) ==
    OscNext(oscillators[id], freqCells[oscillators[id].frequency],
            volCells[oscillators[id].volume_multiplier])

RECURSIVE SumOfVoices(_)
SumOfVoices(S) ==
    IF S = {} THEN 0
    ELSE LET id == CHOOSE x \in S : TRUE
         IN  VoiceNext(id).sample + SumOfVoices(S \ {id})

\* C3: a call of next on a playing engine returns the global multiplier times
\* the plain sum of every registered voice's own next value, and advances
\* every registered voice exactly once.
C3_PlayingNextMixes ==
    [][(samples' # samples /\ is_playing) =>
          /\ out' = Some(volume_multiple * SumOfVoices(DOMAIN oscillators))
          /\ DOMAIN oscillators' = DOMAIN oscillators
          /\ \A id \in DOMAIN oscillators : oscillators'[id] = VoiceNext(id).osc]_vars

\* next has returned a non-zero mix of two voices
C3_Witness ==
    /\ is_playing
    /\ Cardinality(DOMAIN oscillators) = 2
    /\ out # None
    /\ out # Some(0)

RECURSIVE WrittenMix(_)
WrittenMix(S) ==
    IF S = {} THEN 0
    ELSE LET id == CHOOSE x \in S : TRUE
             o == oscillators[id]
             w == written.v[o.volume_multiplier][1]
             hi == IF w > VolOne THEN VolOne ELSE w
             v == IF hi < 0 THEN 0 ELSE hi
         IN  get_interpolated_value(o.wavetable, o.time) * v + WrittenMix(S \ {id})

\* C7: a voice reads the storage the retained handles write: in a call of
\* next on a playing engine, each voice whose frequency cell was written
\* advances by the value last written to it, and when every voice's volume
\* cell was written the sample is the mix under the clamped values last
\* written; also for a voice added with the cell of a removed voice.
C7_VoiceReadsWhatWasWritten ==
    [][(samples' # samples /\ is_playing) =>
          /\ \A id \in DOMAIN oscillators :
                LET o == oscillators[id]
                IN  written.f[o.frequency] # None =>
                       oscillators'[id].time = (o.time + written.f[o.frequency][1]) % PhaseWrap
          /\ (\A id \in DOMAIN oscillators : written.v[oscillators[id].volume_multiplier] # None) =>
                out' = Some(volume_multiple * WrittenMix(DOMAIN oscillators))]_vars

\* the second voice, added with the cells of the removed first, has played
\* two samples under written values: it stands where two advances by the
\* written frequency put it, and the last sample was not silent
C7_Witness ==
    /\ returned = <<0, 1>>
    /\ DOMAIN oscillators = {1}
    /\ is_playing
    /\ samples = 2
    /\ written.f[oscillators[1].frequency] # None
    /\ written.v[oscillators[1].volume_multiplier] = Some(VolOne + 1)
    /\ oscillators[1].time = (2 * written.f[oscillators[1].frequency][1]) % PhaseWrap
    /\ out # None
    /\ out # Some(0)

\* C8 as stated: after set_waveform(kind) every registered voice, and every
\* voice added until the next set_waveform, has the table of kind.
C8_Original ==
    lastSet.kind # None =>
        \A id \in DOMAIN oscillators : Some(oscillators[id].wavetable) = lastSet.kind

\* the template as the last set_waveform or reset left it
LastTemplate ==
    IF lastSet.reset \/ lastSet.kind = None THEN "Sine" ELSE lastSet.kind[1]

\* C8, amended: set_waveform(kind) leaves the template and every registered
\* voice with the table of kind, and a voice added afterwards is created with
\* the table of kind until the next set_waveform or reset (after a reset:
\* with the sine table).
C8_SetWaveformReachesAll ==
    /\ [](wavetable = LastTemplate)
    /\ [][(lastSet'.kind # None /\ ~lastSet'.reset /\ lastSet' # lastSet) =>
              \A id \in DOMAIN oscillators' : Some(oscillators'[id].wavetable) = lastSet'.kind]_vars
    /\ [][latestid' # latestid =>
              oscillators'[latestid].wavetable = LastTemplate]_vars

\* a voice that was there at set_waveform and one added after it, both with
\* the new table
C8_Witness ==
    /\ lastSet = [kind |-> Some("Saw"), reset |-> FALSE]
    /\ DOMAIN oscillators = {0, 1}
    /\ oscillators[0].time # 0
    /\ oscillators[1].time = 0
    /\ \A id \in DOMAIN oscillators : oscillators[id].wavetable = "Saw"

\* the next k samples of a playing engine whose cells are not written
RECURSIVE FutureSamples(_, _, _, _, _)
FutureSamples(k, oscs, mult, fcs, vcs) ==
    IF k = 0 THEN << >>
    ELSE LET r == AudioEngineNext(TRUE, oscs, mult, fcs, vcs)
         IN  <<r.out>> \o FutureSamples(k - 1, r.oscillators, mult, fcs, vcs)

\* C10: after stop(), any number of next() calls and play(), the engine
\* produces the samples it would have produced from the moment of the stop.
C10_StopIsTransparent ==
    (frozen.set /\ is_playing) =>
        FutureSamples(FutureLen, oscillators, volume_multiple, freqCells, volCells)
          = FutureSamples(FutureLen, frozen.oscillators, frozen.volume_multiple,
                          frozen.freqCells, frozen.volCells)

\* play() after a stop and at least one next(), with a voice mid-cycle whose
\* next samples are not silent
C10_Witness ==
    /\ frozen.set
    /\ is_playing
    /\ frozen.calls >= 1
    /\ \E id \in DOMAIN oscillators : oscillators[id].time # 0
    /\ \E i \in 1..FutureLen :
          FutureSamples(FutureLen, oscillators, volume_multiple, freqCells, volCells)[i] # Some(0)

\* the step of voice id in the engine that holds only this voice
SoloNext(id) ==
    OscNext(solo[id], freqCells[solo[id].frequency], volCells[solo[id].volume_multiplier])

\* C11: voices are independent: every registered voice stands where it stands
\* in the engine that holds only it, a removal changes no other voice and no
\* cell, and once one voice is left each sample is the solo engine's sample.
C11_VoicesAreIndependent ==
    /\ [](/\ DOMAIN solo = DOMAIN oscillators
          /\ \A id \in DOMAIN oscillators : oscillators[id] = solo[id])
    /\ [][last'.op = "remove_oscillator" =>
              /\ \A id \in DOMAIN oscillators' : oscillators'[id] = oscillators[id]
              /\ UNCHANGED cellVars]_vars
    /\ [][(last'.op = "next" /\ is_playing) =>
              \A b \in DOMAIN oscillators :
                  DOMAIN oscillators = {b} =>
                      out' = Some(volume_multiple * SoloNext(b).sample)]_vars

\* two voices were added, the first was removed, and the second, two samples
\* into its cycle, has just produced a sample that is not silent
C11_Witness ==
    /\ last.op = "next"
    /\ returned = <<0, 1>>
    /\ DOMAIN oscillators = {1}
    /\ is_playing
    /\ samples = 2
    /\ oscillators[1].time = (2 * freqCells[oscillators[1].frequency]) % PhaseWrap
    /\ out # Some(0)

\* C12: remove_oscillator with an id that is not registered changes neither
\* the engine (registry, template, gain, id counter, play flag) nor a cell,
\* and it can always be called.
C12_RemoveAbsentIsNoOp ==
    /\ [][(last'.op = "remove_oscillator" /\ ~last'.found) =>
              UNCHANGED <<engineVars, cellVars>>]_vars
    /\ [](\A id \in (0..MaxIds) \ DOMAIN oscillators : ENABLED remove_oscillator(id))

\* remove_oscillator was just called with an id that is not registered, on a
\* playing engine that holds a voice mid-cycle
C12_Witness ==
    /\ last = Called("remove_oscillator", FALSE)
    /\ is_playing
    /\ \E id \in DOMAIN oscillators : oscillators[id].time # 0

\* C13: a new engine is stopped, the engine is playing exactly when the last
\* transport call was play, no other call changes the play flag, and play on
\* a playing engine (stop on a stopped one) changes nothing.
C13_TransportIsTwoState ==
    /\ [](is_playing <=> transport = "play")
    /\ [][last'.op \notin {"play", "stop"} => UNCHANGED is_playing]_vars
    /\ [][(last'.op = "play" /\ is_playing) => UNCHANGED <<engineVars, cellVars>>]_vars
    /\ [][(last'.op = "stop" /\ ~is_playing) => UNCHANGED <<engineVars, cellVars>>]_vars

\* reset was just called on an engine that was started, and it still plays
C13_Witness ==
    /\ last.op = "reset"
    /\ transport = "play"
    /\ is_playing
    /\ samples >= 1
    /\ DOMAIN oscillators # {}

\* C14: set_waveform changes, in every registered voice, the table only: the
\* phase and the two cells (which cell, and the cell's value) stay.
C14_SetWaveformKeepsPhase ==
    [][last'.op = "set_waveform" =>
          /\ DOMAIN oscillators' = DOMAIN oscillators
          /\ \A id \in DOMAIN oscillators :
                /\ oscillators'[id].time = oscillators[id].time
                /\ oscillators'[id].frequency = oscillators[id].frequency
                /\ oscillators'[id].volume_multiplier = oscillators[id].volume_multiplier
          /\ UNCHANGED cellVars]_vars

\* set_waveform was just called on an engine holding a voice mid-cycle, which
\* now has the new table
C14_Witness ==
    /\ last.op = "set_waveform"
    /\ \E id \in DOMAIN oscillators :
          /\ oscillators[id].time # 0
          /\ oscillators[id].wavetable = "Square"

\* C15: next never indicates completion: every call returned Some, the next
\* call would return Some, and so would the next of every registered voice
\* (the fallback of the engine's loop is never taken).
C15_NextNeverEnds ==
    /\ last.op = "next" => out # None
    /\ AudioEngineNext(is_playing, oscillators, volume_multiple, freqCells, volCells).out # None
    /\ \A id \in DOMAIN oscillators : VoiceNext(id).ret # None

\* a playing engine without voices has produced as many samples as are
\* explored, the last of them Some(0.0)
C15_Witness ==
    /\ is_playing
    /\ oscillators = << >>
    /\ latestid >= 1
    /\ samples = MaxSamples
    /\ last.op = "next"
    /\ out = Some(0)

\* C16: after set(v) on a volume-multiplier cell, get() returns v clamped to
\* [0, 1]; after set(f) on a frequency cell, get() returns f.
C16_GetReturnsWhatSetStored ==
    /\ \A c \in DOMAIN volCells :
          written.v[c] # None =>
              LET v == written.v[c][1]
              IN  SharedVolumeMultiplierGet(c) =
                      (IF v < 0 THEN 0 ELSE IF v > VolOne THEN VolOne ELSE v)
    /\ \A c \in DOMAIN freqCells :
          written.f[c] # None => SharedFrequencyGet(c) = written.f[c][1]

\* a negative volume multiplier was just written and reads as 0, next to a
\* frequency cell whose last written value is the largest explored
C16_Witness ==
    /\ last.op = "SharedVolumeMultiplier::set"
    /\ \E c \in DOMAIN volCells :
          written.v[c] = Some(0 - 1) /\ SharedVolumeMultiplierGet(c) = 0
    /\ \E c \in DOMAIN freqCells : written.f[c] = Some(PhaseWrap - 1)

\* C17 as stated: whatever the cell was constructed with and whatever was
\* written to it, get() is in [0, 1].
C17_Original ==
    \A c \in DOMAIN volCells :
        0 <= SharedVolumeMultiplierGet(c) /\ SharedVolumeMultiplierGet(c) <= VolOne

\* C18: Volume::new(g).get() is g for g <= 0 (negative infinity included) and
\* 0 for g > 0; multiple() is 2^g of the clamped gain; it is in [0, 1].
C18_VolumeClampsAtZero ==
    /\ fn_call.fn = "Volume::get" =>
          fn_call.r = (IF fn_call.a <= 0 THEN fn_call.a ELSE 0)
    /\ fn_call.fn = "Volume::multiple" =>
          /\ fn_call.a = NegInf => fn_call.r = 0
          /\ (fn_call.a # NegInf /\ fn_call.a <= 0) => fn_call.r * 2 ^ (0 - fn_call.a) = GainOne
          /\ fn_call.a > 0 => fn_call.r = GainOne
          /\ 0 <= fn_call.r /\ fn_call.r <= GainOne

\* the multiple of a gain of -2 was taken: a quarter
C18_Witness ==
    /\ fn_call.fn = "Volume::multiple"
    /\ fn_call.a = 0 - 2
    /\ 4 * fn_call.r = GainOne

\* C19 as stated: the square table holds 1.0 at index 0 and -1.0 at index
\* WAVETABLE_SIZE / 2.
C19_Original ==
    (fn_call.fn = "get_index" /\ fn_call.k = "Square") =>
        /\ fn_call.a = 0 => fn_call.r = TableOne
        /\ fn_call.a = WAVETABLE_SIZE \div 2 => fn_call.r = 0 - TableOne

\* C20: at an integer index get_interpolated_value is the raw sample, at a
\* half-integer index the mean of the sample and its neighbour, the neighbour
\* of the last index being index 0.
C20_InterpolationAtGridPoints ==
    (fn_call.fn = "get_interpolated_value" /\ fn_call.a < PhaseSlots) =>
        LET i == fn_call.a \div Sub
            up == IF i = WAVETABLE_SIZE - 1 THEN 0 ELSE i + 1
        IN  /\ fn_call.a = i * Sub => fn_call.r = Sub * get_index(fn_call.k, i)
            /\ 2 * fn_call.a = (2 * i + 1) * Sub =>
                  2 * fn_call.r = Sub * (get_index(fn_call.k, i) + get_index(fn_call.k, up))

\* the saw table was read half-way between its last index and index 0, where
\* the two samples differ
C20_Witness ==
    /\ fn_call.fn = "get_interpolated_value"
    /\ fn_call.k = "Saw"
    /\ 2 * fn_call.a = (2 * (WAVETABLE_SIZE - 1) + 1) * Sub
    /\ get_index("Saw", WAVETABLE_SIZE - 1) # get_index("Saw", 0)
    /\ 2 * fn_call.r = Sub * (get_index("Saw", WAVETABLE_SIZE - 1) + get_index("Saw", 0))

\* C21 as stated: get_index(i) is table[i mod N] for every i >= 0, and does
\* not fail.
C21_Original ==
    fn_call.fn = "get_index" =>
        /\ fn_call.r # Panic
        /\ fn_call.r = Table(fn_call.k, fn_call.a % WAVETABLE_SIZE)

\* C22: for every index x >= 0, also at and beyond the table's end,
\* get_interpolated_value reads two positions inside the table, returns a
\* value, and returns what it returns for x mod N.
C22_InterpolationIsTotal ==
    fn_call.fn = "get_interpolated_value" =>
        LET reduced == fn_call.a % PhaseSlots
            floor == reduced \div Sub
        IN  /\ fn_call.r # Panic
            /\ floor \in 0..(WAVETABLE_SIZE - 1)
            /\ fn_call.r = (Sub - (reduced - floor * Sub)) * Table(fn_call.k, floor)
                             + (reduced - floor * Sub)
                               * Table(fn_call.k, IF floor = WAVETABLE_SIZE - 1 THEN 0 ELSE floor + 1)
            /\ fn_call.a >= PhaseSlots =>
                  fn_call.r = get_interpolated_value(fn_call.k, fn_call.a - PhaseSlots)

\* the saw table was read between its last index and index 0, one table
\* length further on
C22_Witness ==
    /\ fn_call.fn = "get_interpolated_value"
    /\ fn_call.k = "Saw"
    /\ fn_call.a = 2 * PhaseSlots - 1
    /\ fn_call.r # Panic
    /\ fn_call.r = get_interpolated_value("Saw", PhaseSlots - 1)

\* the sample a playing engine would produce next under the global gain g
SampleAtGain(g) ==
    AudioEngineNext(TRUE, oscillators, VolumeMultiple(VolumeNew(g)), freqCells, volCells).out[1]

\* C23: with the same voices in the same state, the sample under gain -1 is
\* half the sample under gain 0, and so is each sample produced at gain -1.
C23_GainMinusOneHalves ==
    /\ [](2 * SampleAtGain(0 - 1) = SampleAtGain(0))
    /\ [][(last'.op = "next" /\ is_playing /\ VolumeGet(volume) = 0 - 1) =>
              2 * out'[1] = SampleAtGain(0)]_vars

\* one voice at full volume has just sounded under gain -1
C23_Witness ==
    /\ last.op = "next"
    /\ is_playing
    /\ VolumeGet(volume) = 0 - 1
    /\ DOMAIN oscillators = {0}
    /\ SharedVolumeMultiplierGet(oscillators[0].volume_multiplier) = VolOne
    /\ out # Some(0)

\* C24 as stated: after reset the volume is -4 with its multiplier, the
\* template is the sine table and the registry is empty, as after new.
C24_Original ==
    last.op = "reset" =>
        /\ VolumeGet(volume) = DefaultVolume
        /\ volume_multiple = VolumeMultiple(VolumeNew(DefaultVolume))
        /\ wavetable = "Sine"
        /\ oscillators = << >>

\* C25 as stated: every registered voice's table is the engine's template.
C25_Original ==
    \A id \in DOMAIN oscillators : oscillators[id].wavetable = wavetable

\* C29: with non-negative frequencies, every voice's phase is at least 0 and
\* below WAVETABLE_SIZE cycles, whatever was written between the calls.
C29_PhaseStaysInRange ==
    \A id \in DOMAIN oscillators :
        0 <= oscillators[id].time /\ oscillators[id].time < PhaseWrap

\* a voice whose frequency cell was written has just wrapped: two advances by
\* the largest frequency explored
C29_Witness ==
    /\ last.op = "next"
    /\ \E id \in DOMAIN oscillators :
          /\ written.f[oscillators[id].frequency] = Some(PhaseWrap - 1)
          /\ oscillators[id].time = PhaseWrap - 2

\* C30: a voice's next returns the table value at the phase held before the
\* call times the volume cell's value, whatever the frequency cell holds; the
\* sample of a voice at phase 0 is table[0] times the volume.
C30_ReadsBeforeAdvancing ==
    /\ [][(last'.op = "next" /\ is_playing) =>
              \A b \in DOMAIN oscillators :
                  DOMAIN oscillators = {b} =>
                      LET o == oscillators[b]
                          v == SharedVolumeMultiplierGet(o.volume_multiplier)
                      IN  /\ out' = Some(volume_multiple
                                           * get_interpolated_value(o.wavetable, o.time) * v)
                          /\ o.time = 0 =>
                                out' = Some(volume_multiple * Sub * get_index(o.wavetable, 0) * v)]_vars
    /\ [](\A id \in DOMAIN oscillators, f1 \in FreqInputs, f2 \in FreqInputs :
              OscNext(oscillators[id], f1, 1).ret = OscNext(oscillators[id], f2, 1).ret)

\* the first sample of a new voice with the square table and the largest
\* frequency explored: table[0] times the volume, and not silent
C30_Witness ==
    /\ last.op = "next"
    /\ samples = 1
    /\ DOMAIN oscillators = {0}
    /\ oscillators[0].wavetable = "Square"
    /\ oscillators[0].time = PhaseWrap - 1
    /\ out = Some(volume_multiple * Sub * TableOne
                    * SharedVolumeMultiplierGet(oscillators[0].volume_multiplier))
    /\ out # Some(0)

\* C26: an entry of relative_frequencies whose absolute_frequency_id is not a
\* key of global_frequencies has oscillator id None, and no voice of the
\* registry reads its volume cell.  (The statement as the claim makes it.)
C26_Original ==
    \A k \in DOMAIN relative_frequencies :
        LET entry == relative_frequencies[k]
        IN  entry.relative_frequency.absolute_frequency_id \notin DOMAIN global_frequencies
            => /\ entry.oscillator_id = None
               /\ \A i \in DOMAIN oscillators :
                      oscillators[i].volume_multiplier # entry.shared_volume_multiplier

\* C27: whenever State.file is Some((path, true)), the project as to_save
\* gives it is the content of the file at path.  (The statement as the claim
\* makes it.)
C27_Original ==
    (file # None /\ file[1].saved) => disk[file[1].path] = Some(to_save)

\* the entries of relative_frequencies that hold an oscillator id
Voiced == {k \in DOMAIN relative_frequencies : relative_frequencies[k].oscillator_id # None}

\* C28: the oscillator ids State.relative_frequencies holds are the keys of
\* the engine registry, and no two entries hold the same id.
C28_IdsMatchRegistry ==
    /\ {relative_frequencies[k].oscillator_id[1] : k \in Voiced} = DOMAIN oscillators
    /\ \A j, k \in Voiced :
          relative_frequencies[j].oscillator_id = relative_frequencies[k].oscillator_id
              => j = k

\* two entries sound, every id the bound allows was handed out (so a voice
\* made earlier was removed), and the project is the one in its file
C28_Witness ==
    /\ Cardinality(Voiced) = 2
    /\ latestid = MaxGuiIds
    /\ file # None
    /\ file[1].saved
    /\ disk[file[1].path] = Some(to_save)

\* C36 as stated: for every index x >= 0 the crate root's
\* get_interpolated_value reads two positions inside the table and returns
\* a value, and for floor(x mod N) = N - 1 its second sample is table[0].
C36_Original ==
    fn_call.fn = "lib::get_interpolated_value" =>
        LET reduced == fn_call.a % PhaseSlots
            floor == reduced \div Sub
        IN  /\ floor \in 0..(WAVETABLE_SIZE - 1)
            /\ lib_second_position(floor) \in 0..(WAVETABLE_SIZE - 1)
            /\ floor = WAVETABLE_SIZE - 1 => lib_second_position(floor) = 0
            /\ fn_call.r # Panic

\* C32: in every reachable state the multiplier next mixes with is
\* 2^(get_volume().get()), and get_volume() is the Volume of the last
\* set_volume since new or the last reset, or Volume(-4) when there was none.
C32_MultiplierNeverStale ==
    /\ volume_multiple = (IF VolumeGet(get_volume) = NegInf THEN 0
                          ELSE 2 ^ (GainBits + VolumeGet(get_volume)))
    /\ get_volume = unwrap_or(lastVolume, VolumeNew(DefaultVolume))

\* after a reset a volume of -1 was set, and a sample was mixed under it
C32_Witness ==
    /\ lastVolume = Some(0 - 1)
    /\ lastSet.reset
    /\ last.op = "next"
    /\ get_volume = 0 - 1
    /\ volume_multiple = GainOne \div 2

\* C31: two oscillators on the same table, both started at phase 0 and given
\* the same frequency and volume at every step, one wrapping its phase at
\* WAVETABLE_SIZE cycles and one at 1 cycle, return the same sample at every
\* step.
C31_OuterWrapUnobservable ==
    (twins.made /\ twins.out # None) =>
        /\ twins.out[1][1] # None
        /\ twins.out[1][1] = twins.out[1][2]
        /\ twins.osc.time % PhaseSlots = twins.unit.time

\* a sample other than zero, read after the code's oscillator wrapped at
\* WAVETABLE_SIZE cycles, at a phase of more than one cycle
C31_Witness ==
    /\ twins.made
    /\ twins.lapped
    /\ twins.out # None
    /\ twins.out[1][1] \notin {None, Some(0)}
    /\ twins.out[1][1] = twins.out[1][2]
    /\ twins.at >= PhaseSlots
    /\ twins.osc.time # twins.unit.time

\* C33: when update_global_frequency(id, FrequencyUpdated(f)) has run for an
\* id that exists, the frequency cell of every entry referencing id holds
\* f * numerator / denominator, with or without an oscillator, the cells of
\* the other entries and the engine registry are as before; for an id that
\* does not exist nothing has changed.
C33_GlobalFrequencyReachesItsEntries ==
    [][(fn_call' # fn_call /\ fn_call'.fn = "GlobalFrequencyUpdated") =>
          LET id == fn_call'.a
              f == fn_call'.r
          IN  IF id \in DOMAIN global_frequencies
              THEN /\ \A k \in DOMAIN relative_frequencies :
                         LET entry == relative_frequencies[k]
                             rf == entry.relative_frequency
                         IN  IF rf.absolute_frequency_id = id
                             THEN freqCells'[entry.shared_frequency] * rf.ratio.denominator
                                      = f * rf.ratio.numerator
                             ELSE freqCells'[entry.shared_frequency]
                                      = freqCells[entry.shared_frequency]
                   /\ UNCHANGED <<oscillators, latestid, relative_frequencies>>
              ELSE UNCHANGED <<global_frequencies, relative_frequencies, engineVars,
                               cellVars>>]_vars

\* global frequency 1 was set to 84 while one entry referenced it with the
\* ratio 3/2 and another referenced no global frequency: the first entry's
\* cell holds 126 and its voice is in the registry
C33_Witness ==
    /\ fn_call = Handled("GlobalFrequencyUpdated", 1, 84)
    /\ 1 \in DOMAIN global_frequencies
    /\ global_frequencies[1].frequency = 84
    /\ \E k, j \in DOMAIN relative_frequencies :
          /\ relative_frequencies[k].relative_frequency.absolute_frequency_id = 1
          /\ relative_frequencies[k].relative_frequency.ratio
                 = [numerator |-> 3, denominator |-> 2]
          /\ freqCells[relative_frequencies[k].shared_frequency] = 126
          /\ relative_frequencies[k].oscillator_id # None
          /\ relative_frequencies[k].oscillator_id[1] \in DOMAIN oscillators
          /\ relative_frequencies[j].relative_frequency.absolute_frequency_id = 0
          /\ freqCells[relative_frequencies[j].shared_frequency] # 84

\* C34: is_loading is true exactly while an open or save task is pending;
\* while it is true no task is started or replaced, and NewFile does not
\* empty the project or forget its file; the step that completes the task
\* (SaveLoaded or StateSaved, Ok or Err) leaves is_loading false.
C34_FileOperationsSerialised ==
    /\ [](is_loading <=> task # NoTask)
    /\ [][is_loading =>
              \/ task' = task /\ is_loading'
              \/ task' = NoTask /\ ~is_loading']_vars
    /\ [][(is_loading /\ is_loading') =>
              /\ file # None => file' # None
              /\ global_frequencies # << >> => global_frequencies' # << >>
              /\ UNCHANGED disk]_vars
    /\ [][(task # NoTask /\ task' = NoTask) => ~is_loading']_vars

\* a save is pending on a project that has a file from an earlier file
\* operation and was edited after the save began
C34_Witness ==
    /\ is_loading
    /\ task.fn = "save_file"
    /\ file # None
    /\ global_frequencies # << >>
    /\ task.state_save # Some(to_save)

\* C35: after every message State.volume is the engine's get_volume() and
\* State.waveform is the waveform of the engine's template table.
C35_MirrorIsExact ==
    /\ state_volume = get_volume
    /\ state_waveform = wavetable

\* a project with a file, whose volume and waveform are not the defaults
C35_Witness ==
    /\ file # None
    /\ file[1].saved
    /\ disk[file[1].path] = Some(to_save)
    /\ state_volume = NegInf
    /\ get_volume = NegInf
    /\ state_waveform = "Square"
    /\ wavetable = "Square"
    /\ relative_frequencies # << >>

AudioInside == a_pc # "idle"
GuiInside == g_pc \in {"locked", "calling"}

\* C4: the two threads are never inside an engine operation at the same time,
\* and a thread inside one holds the engine mutex.
C4_EngineIsExclusive ==
    /\ ~(AudioInside /\ GuiInside)
    /\ AudioInside => mutex = "audio"
    /\ GuiInside => mutex = "gui"
    /\ (~AudioInside /\ ~GuiInside) => mutex = "free"

\* the control thread is between two calls of one critical section after the
\* audio thread has produced a sample
C4_Witness ==
    /\ g_pc = "calling"
    /\ g_calls # << >>
    /\ samples >= 1
    /\ latestid >= 1

\* C5: a cell write needs neither the engine mutex nor any other cell's lock
\* (it can begin whenever its own cell is unlocked and, once begun, can
\* complete, whoever holds the engine mutex), and it changes that cell only.
C5_CellWriteIsIndependent ==
    /\ [](\A c \in AllCells :
            (g_pc = "idle" /\ c \notin readLocked /\ c \notin writeLocked)
               => ENABLED CellWriteLock(c))
    /\ [](g_pc = "cell" => ENABLED GuiCellStore)
    /\ [][(g_pc = "cell" /\ g_pc' = "idle") =>
            /\ UNCHANGED <<engineVars, mutex>>
            /\ \A c \in AllCells \ {g_cell} :
                  IF c[1] = "f" THEN freqCells'[c[2]] = freqCells[c[2]]
                  ELSE volCells'[c[2]] = volCells[c[2]]]_vars

\* a cell write is under way while the audio thread holds the engine mutex
\* and the read lock of the other cell
C5_Witness ==
    /\ g_pc = "cell"
    /\ mutex = "audio"
    /\ readLocked # {}

\* the lock a thread is waiting for is held by a thread that can step
AudioCanProceed ==
    \/ ENABLED AudioStep
    \/ a_pc \in {"freq", "vol"} /\ writeLocked # {} /\ ENABLED GuiCellStore

\* C6: no deadlock is reachable, and every operation that has begun completes.
C6_NoOperationBlocksForever ==
    /\ [](AudioInside => AudioCanProceed)
    /\ [](g_pc # "idle" => ENABLED GuiStep)
    /\ (AudioInside ~> ~AudioInside)
    /\ (g_pc # "idle" ~> g_pc = "idle")

\* the audio thread waits for the read lock of a cell the control thread is
\* writing
C6_Witness ==
    /\ a_pc = "freq"
    /\ <<"f", oscillators[Head(a_todo)].frequency>> \in writeLocked
    /\ g_pc = "cell"

\* C9: no sample is a sum in which one voice was read from the table it had
\* when the sample began and another from a table set since.
C9_WaveformChangeIsAtomic ==
    ~(\E p, q \in DOMAIN a_used :
         /\ p \in DOMAIN a_snap
         /\ q \in DOMAIN a_snap
         /\ a_used[p] = a_snap[p]
         /\ a_used[q] # a_snap[q])

\* a sample summing two voices is complete, after a waveform change
C9_Witness ==
    /\ a_pc = "loop"
    /\ a_todo = << >>
    /\ DOMAIN a_used = {0, 1}
    /\ lastSet.kind = Some("Saw")
    /\ \A id \in DOMAIN a_used : a_used[id] = "Saw"
    /\ oscillators[0].time # 0

====
